---------------------------- MODULE Spec2Model ----------------------------
(***************************************************************************)
(* Model of the surveying calculation engine (calculation.py) and of the   *)
(* shared result log (resultlog.py).                                       *)
(*                                                                         *)
(* Numbers.  Python floats are modelled by exact rationals [num, den] in   *)
(* lowest terms, so that an algebraic identity of the code is checked as   *)
(* an identity and not up to rounding.  Angles are integers in units of    *)
(* 1.5 degrees (Pi = 120 units); math.sin and math.cos are the table       *)
(* SinTab of the sine to three decimals.                                   *)
(*                                                                         *)
(* Optional values.  Python's None is the empty sequence and a present     *)
(* value x is <<x>>, so that absent and present values compare.            *)
(*                                                                         *)
(* Indices are the source's: station i of trav_obs is trav_obs[i] with     *)
(* i in 0 .. n-1.                                                          *)
(***************************************************************************)
EXTENDS Integers, Sequences, FiniteSets, TLC

VARIABLES
    trav_obs,    \* the list handed to Calculation.traverse: i -> [st, obsprev, obsnext]
    forceFree,   \* the forceFree argument of the calls
    log,         \* ResultLog.resultlog_message, as the sequence of its lines
    ret,         \* what the last call returned: [kind, exc, pts]
    rets,        \* the results of the calls made so far, in order
    pre,         \* trav_obs as it was when the last call started
    calc,        \* the working arrays of the last call of traverse
    calls,       \* number of calls made
    isect,       \* the arguments of Calculation.intersection and its outcome
    inv,         \* two interleaved invocations of traverse: k -> [lines, pc, w]
    orient,      \* the arguments of Calculation.orientation and the outcomes of its calls
    resect,      \* the arguments of Calculation.resection and its outcome
    polar,       \* the arguments of Calculation.polarpoint and its outcome
    gauss,       \* the arguments of Calculation.gauss_elimination and its outcome
    fit,         \* the arguments of a transformation fit and its outcome
    job          \* a JobAre parser: the lines of its file, its position, its results

vars == <<trav_obs, forceFree, log, ret, rets, pre, calc, calls, isect, inv,
          orient, resect, polar, gauss, fit, job>>

----------------------------------------------------------------------------
(* Bounds of the model *)

MaxN == 4
MaxCalls == 2
MaxLines == 2

----------------------------------------------------------------------------
(* Optional values *)

None == <<>>
Some(x) == <<x>>
IsNone(o) == o = <<>>
NotNone(o) == o # <<>>
Val(o) == o[1]

----------------------------------------------------------------------------
(* Exact rational arithmetic standing for Python's float arithmetic *)

Abs(x) == IF x < 0 THEN -x ELSE x

RECURSIVE Gcd(_, _)
Gcd(a, b) == IF b = 0 THEN a ELSE Gcd(b, a % b)

Norm(num, den) ==
    LET g == Gcd(Abs(num), Abs(den))
        s == IF den < 0 THEN -1 ELSE 1
    IN  [num |-> s * (num \div g), den |-> s * (den \div g)]

R(k) == [num |-> k, den |-> 1]
RZero == R(0)
Lcm(a, b) == (a \div Gcd(a, b)) * b
RAdd(x, y) ==
    LET l == Lcm(x.den, y.den)
    IN  Norm(x.num * (l \div x.den) + y.num * (l \div y.den), l)
RNeg(x) == [num |-> -x.num, den |-> x.den]
RSub(x, y) == RAdd(x, RNeg(y))
RMul(x, y) ==
    LET a == Norm(x.num, y.den)
        b == Norm(y.num, x.den)
    IN  Norm(a.num * b.num, a.den * b.den)
RDiv(x, y) == RMul(x, Norm(y.den, y.num))
RHalf(x) == RMul(x, [num |-> 1, den |-> 2])
RIsZero(x) == x.num = 0
RSign(x) == IF x.num > 0 THEN 1 ELSE IF x.num < 0 THEN -1 ELSE 0

----------------------------------------------------------------------------
(* Angles: math.pi, math.sin, math.cos *)

Pi == 120
TwoPi == 2 * Pi
HalfPi == Pi \div 2

SinTab ==
    <<0, 26, 52, 78, 105, 131, 156, 182, 208, 233, 259, 284, 309, 334, 358,
      383, 407, 431, 454, 477, 500, 522, 545, 566, 588, 609, 629, 649, 669,
      688, 707, 725, 743, 760, 777, 793, 809, 824, 839, 853, 866, 879, 891,
      903, 914, 924, 934, 943, 951, 959, 966, 972, 978, 983, 988, 991, 995,
      997, 999, 1000, 1000>>
SinScale == 1000

Mod2Pi(a) == a % TwoPi

SinInt(a) ==
    LET m == Mod2Pi(a)
    IN  IF m <= HalfPi THEN SinTab[m + 1]
        ELSE IF m <= Pi THEN SinTab[Pi - m + 1]
        ELSE IF m <= Pi + HalfPi THEN -SinTab[m - Pi + 1]
        ELSE -SinTab[TwoPi - m + 1]

Sin(a) == Norm(SinInt(a), SinScale)
Cos(a) == Norm(SinInt(a + HalfPi), SinScale)


----------------------------------------------------------------------------
(* The value records: Point, Station, PolarObservation *)

Point(id, e, n) ==
    [id |-> id, e |-> e, n |-> n, z |-> None, pc |-> None, pt |-> None]

Station(p, oid, ohz) == [p |-> p, oid |-> oid, ohz |-> ohz]

PolarObservation(point_id, hz, d) ==
    [point_id |-> point_id, hz |-> hz, d |-> d, pc |-> None]

\* PolarObservation.horiz_dist(): the distances of the model are horizontal
horiz_dist(obs) == Val(obs.d)

----------------------------------------------------------------------------
(* The inputs of Calculation.traverse the model explores.  A parameter      *)
(* record q describes one list trav_obs.                                    *)

Ids == <<"K", "1", "2", "3", "4", "5", "6", "7">>
IdAt(i) == Ids[i + 1]

StartE == R(10)
StartN == R(20)
EndE == R(13)
EndN == R(24)

StartKinds == {"none", "nop", "noe", "non", "ok"}
EndKinds == {"none", "nop", "nocoord", "ok", "loop"}
DistKinds == {"next", "prev", "both", "zero"}
StartOrient == {None, Some(HalfPi), Some(Pi + HalfPi)}
EndOrient == {None, Some(0), Some(Pi)}
PrevHz == {0, Pi}
NextHz == {0, HalfPi, Pi}

Defects(n) ==
    {[kind |-> "ok", i |-> 0], [kind |-> "lastnext", i |-> n - 1]}
    \cup {[kind |-> k, i |-> i] :
            k \in {"noprev", "noprevhz", "nodist"}, i \in 1 .. n - 1}
    \cup {[kind |-> k, i |-> i] :
            k \in {"nonext", "nonexthz"}, i \in 0 .. n - 2}
    \cup {[kind |-> "nost", i |-> i] : i \in 1 .. n - 2}

Has(q, kind, i) == q.defect.kind = kind /\ q.defect.i = i

StationOf(q, i) ==
    IF i = 0 THEN
        CASE q.startK = "none" -> None
          [] q.startK = "nop" -> Some(Station(None, IdAt(0), q.oS))
          [] q.startK = "noe" ->
                Some(Station(Some(Point(IdAt(0), None, Some(StartN))), IdAt(0), q.oS))
          [] q.startK = "non" ->
                Some(Station(Some(Point(IdAt(0), Some(StartE), None)), IdAt(0), q.oS))
          [] OTHER ->
                Some(Station(Some(Point(IdAt(0), Some(StartE), Some(StartN))),
                             IdAt(0), q.oS))
    ELSE IF i = q.n - 1 THEN
        CASE q.endK = "none" -> None
          [] q.endK = "nop" -> Some(Station(None, IdAt(i), q.oE))
          [] q.endK = "nocoord" ->
                Some(Station(Some(Point(IdAt(i), None, None)), IdAt(i), q.oE))
          [] q.endK = "loop" ->
                Some(Station(Some(Point(IdAt(i), Some(StartE), Some(StartN))),
                             IdAt(i), q.oE))
          [] OTHER ->
                Some(Station(Some(Point(IdAt(i), Some(EndE), Some(EndN))),
                             IdAt(i), q.oE))
    ELSE IF Has(q, "nost", i) THEN None
    ELSE IF q.interP THEN Some(Station(Some(Point(IdAt(i), None, None)), IdAt(i), None))
    ELSE Some(Station(None, IdAt(i), None))

\* the distance recorded for leg i-1 -> i at station i-1 (next) and at station i (prev)
NextDist(q, i) ==
    IF Has(q, "nodist", i) \/ q.dist = "prev" THEN None
    ELSE IF q.dist = "zero" THEN Some(RZero)
    ELSE Some(R(i + 1))

PrevDist(q, i) ==
    IF Has(q, "nodist", i) \/ q.dist \in {"next", "zero"} THEN None
    ELSE Some(R(i + 2))

ObsPrevOf(q, i) ==
    IF i = 0 \/ Has(q, "noprev", i) THEN None
    ELSE Some(PolarObservation(IdAt(i - 1),
                               IF Has(q, "noprevhz", i) THEN None ELSE Some(q.hp),
                               PrevDist(q, i)))

ObsNextOf(q, i) ==
    IF i = q.n - 1 THEN
        IF Has(q, "lastnext", i)
        THEN Some(PolarObservation(IdAt(i + 1), Some(q.hn), Some(R(1))))
        ELSE None
    ELSE IF Has(q, "nonext", i) THEN None
    ELSE Some(PolarObservation(IdAt(i + 1),
                               IF Has(q, "nonexthz", i) THEN None
                               ELSE Some(Mod2Pi(q.hn + i * HalfPi)),
                               NextDist(q, i + 1)))

TravObsOf(q) ==
    [i \in 0 .. q.n - 1 |->
        [st |-> StationOf(q, i), obsprev |-> ObsPrevOf(q, i), obsnext |-> ObsNextOf(q, i)]]

Default(n, startK) ==
    [n |-> n, startK |-> startK, endK |-> "ok", interP |-> FALSE,
     oS |-> Some(HalfPi), oE |-> Some(0), hp |-> 0, hn |-> HalfPi,
     dist |-> "both", defect |-> [kind |-> "ok", i |-> 0]]

\* too few stations, or a start station without coordinates
ParamsBadStart ==
    {Default(n, k) : n \in 2 .. MaxN, k \in StartKinds}

\* complete observations: every kind of end station, orientation and distance
ParamsComplete ==
    {[Default(n, "ok") EXCEPT !.endK = ek, !.interP = ip, !.oS = os, !.oE = oe,
                              !.hp = hp, !.hn = hn, !.dist = dk] :
        n \in 3 .. MaxN, ek \in EndKinds, ip \in BOOLEAN, os \in StartOrient,
        oe \in EndOrient, hp \in PrevHz, hn \in NextHz, dk \in DistKinds}

\* one observation, distance or station missing, or one too many
ParamsDefect ==
    UNION {{[Default(n, "ok") EXCEPT !.endK = ek, !.interP = ip, !.oS = os, !.defect = df] :
              ek \in EndKinds, ip \in BOOLEAN, os \in {None, Some(HalfPi)},
              df \in Defects(n) \ {[kind |-> "ok", i |-> 0]}} : n \in 3 .. MaxN}

Params == ParamsBadStart \cup ParamsComplete \cup ParamsDefect

----------------------------------------------------------------------------
(* Calculation.traverse: validation and collection of the measurements      *)

ErrPoints == "Error: At least 3 points must be added to traverse line!"
ErrStart == "Error: No coordinates on start point!"
WarnFree == "Warning: No coordinates for end point -> Free traverse."
ErrOrient == "Error: No orientation on start point and no coordinates on end point!"
WarnInserted == "Warning: No orientation on start point - inserted traverse."
WarnEnd == "Warning: No orientation on end point."
ErrAngle == "Error: No angle at point %s!"
ErrDist == "Error: No distance between points %s and %s!"
ErrorMessages == {ErrPoints, ErrStart, ErrOrient, ErrAngle, ErrDist}

Line(msg, a, b) == <<msg, a, b>>
IsError(line) == line[1] \in ErrorMessages
HasError(lg) == \E k \in 1 .. Len(lg) : IsError(lg[k])

\* what a call returns: a list of points, None, or an exception reaching the caller
RetList(pts) == [kind |-> "list", exc |-> "", pts |-> pts]
RetNone == [kind |-> "None", exc |-> "", pts |-> <<>>]
RetRaise(exc) == [kind |-> "raise", exc |-> exc, pts |-> <<>>]
NotCalled == [kind |-> "", exc |-> "", pts |-> <<>>]

\* the state of one call while it runs
Running(s) == s.status = "run"
Append1(s, line) == [s EXCEPT !.log = Append(@, line)]
ReturnNone(s) == [s EXCEPT !.status = "None"]
Raise(s, exc) == [s EXCEPT !.status = "raise", !.exc = exc]
ErrorReturn(s, line) == ReturnNone(Append1(s, line))

\* "n < 3"
TooFewPoints(n) == n < 3

\* "startp is None or startp.p is None or startp.p.e is None or startp.p.n is None"
NoCoords(stp) ==
    \/ IsNone(stp)
    \/ IsNone(Val(stp).p)
    \/ IsNone(Val(Val(stp).p).e)
    \/ IsNone(Val(Val(stp).p).n)

\* "endp.p.e = None; endp.p.n = None": fails on an end station or point that is None
ForceFree(s, n) ==
    LET endp == s.tr[n - 1].st
    IN  IF IsNone(endp) \/ IsNone(Val(endp).p) THEN Raise(s, "AttributeError")
        ELSE [s EXCEPT !.free = TRUE,
                       !.tr[n - 1].st[1].p[1].e = None,
                       !.tr[n - 1].st[1].p[1].n = None]

\* lines 239-249
FreeOrClosed(s, n, ff) ==
    IF ff THEN ForceFree(s, n)
    ELSE IF NoCoords(s.tr[n - 1].st)
    THEN [Append1(s, Line(WarnFree, "", "")) EXCEPT !.free = TRUE]
    ELSE s

\* "trav_obs[i][0].p.id": the id, or nothing when the access fails
PointIdOf(tr, i) ==
    IF IsNone(tr[i].st) \/ IsNone(Val(tr[i].st).p) THEN None
    ELSE Some(Val(Val(tr[i].st).p).id)

\* "obsprev is None or obsnext is None or obsprev.hz is None or obsnext.hz is None"
NoAngle(obsprev, obsnext) ==
    \/ IsNone(obsprev)
    \/ IsNone(obsnext)
    \/ IsNone(Val(obsprev).hz)
    \/ IsNone(Val(obsnext).hz)

HasHz(obs) == NotNone(obs) /\ NotNone(Val(obs).hz)
HasDist(obs) == NotNone(obs) /\ NotNone(Val(obs).d)

\* the two while loops of lines 302-306
RECURSIVE NormBeta(_)
NormBeta(b) ==
    IF b > TwoPi THEN NormBeta(b - TwoPi)
    ELSE IF b < 0 THEN NormBeta(b + TwoPi)
    ELSE b

\* lines 261-278: the orientation of the first and of the last station
EndOrientation(s, i, n) ==
    LET st == s.tr[i].st
    IN  IF i = 0 THEN
            LET s1 == [s EXCEPT !.beta[0] = Val(st).ohz]
            IN  IF IsNone(s1.beta[0]) THEN
                    IF s.free THEN ErrorReturn(s1, Line(ErrOrient, "", ""))
                    ELSE Append1(s1, Line(WarnInserted, "", ""))
                ELSE s1
        ELSE IF i = n - 1 THEN
            IF IsNone(st) THEN Raise(s, "AttributeError")
            ELSE LET s1 == [s EXCEPT !.beta[i] = Val(st).ohz]
                 IN  IF IsNone(s1.beta[i]) THEN Append1(s1, Line(WarnEnd, "", ""))
                     ELSE s1
        ELSE s

\* lines 280-285
CheckAngle(s, i, n) ==
    IF i # 0 /\ i # n - 1 /\ NoAngle(s.tr[i].obsprev, s.tr[i].obsnext) THEN
        IF IsNone(PointIdOf(s.tr, i)) THEN Raise(s, "AttributeError")
        ELSE ErrorReturn(s, Line(ErrAngle, Val(PointIdOf(s.tr, i)), ""))
    ELSE s

\* beta[i] is the station's own Angle object st.o.hz at both ends: set_angle
\* on it changes the station's orientation as well
SetEndAngle(s, i, a) ==
    [s EXCEPT !.beta[i] = Some(a), !.tr[i].st[1].ohz = Some(a)]

\* lines 287-306
TurnAngle(s, i, n) ==
    LET obsprev == s.tr[i].obsprev
        obsnext == s.tr[i].obsnext
    IN  IF i = 0 THEN
            IF NotNone(s.beta[0]) /\ HasHz(obsnext)
            THEN SetEndAngle(s, 0, NormBeta(Val(s.beta[0]) + Val(Val(obsnext).hz)))
            ELSE [s EXCEPT !.beta[0] = None]
        ELSE IF i = n - 1 THEN
            IF NotNone(s.beta[i]) /\ NotNone(s.beta[0]) /\ HasHz(obsprev)
            THEN SetEndAngle(s, i,
                     NormBeta(TwoPi - (Val(s.beta[i]) + Val(Val(obsprev).hz))))
            ELSE [s EXCEPT !.beta[i] = None]
        ELSE [s EXCEPT !.beta[i] =
                 Some(NormBeta(Val(Val(obsnext).hz) - Val(Val(obsprev).hz)))]

\* the two distances added, not halved
MeanDistSum(a, b) == RAdd(a, b)

\* "(t[i].d + obsprev.horiz_dist()) / 2.0"
MeanDist(a, b) == RHalf(RAdd(a, b))

\* lines 308-321
PrevDistance(s, i) ==
    LET obsprev == s.tr[i].obsprev
    IN  IF HasDist(obsprev) THEN
            IF NotNone(s.t[i])
            THEN [s EXCEPT !.t1[i] = Some(horiz_dist(Val(obsprev))),
                           !.t2[i] = s.t[i],
                           !.t[i] = Some(MeanDist(Val(s.t[i]), horiz_dist(Val(obsprev))))]
            ELSE [s EXCEPT !.t[i] = Some(horiz_dist(Val(obsprev)))]
        ELSE IF i > 0 /\ IsNone(s.t[i]) THEN
            IF IsNone(PointIdOf(s.tr, i - 1)) \/ IsNone(PointIdOf(s.tr, i))
            THEN Raise(s, "AttributeError")
            ELSE ErrorReturn(s, Line(ErrDist, Val(PointIdOf(s.tr, i - 1)),
                                     Val(PointIdOf(s.tr, i))))
        ELSE s

\* lines 323-324: t has n entries, t[n] does not exist
NextDistance(s, i, n) ==
    LET obsnext == s.tr[i].obsnext
    IN  IF HasDist(obsnext) THEN
            IF i + 1 > n - 1 THEN Raise(s, "IndexError")
            ELSE [s EXCEPT !.t[i + 1] = Some(horiz_dist(Val(obsnext)))]
        ELSE s

\* one turn of the loop of lines 257-324
Collect(s, i, n) ==
    LET a == EndOrientation(s, i, n)
        b == IF Running(a) THEN CheckAngle(a, i, n) ELSE a
        c == IF Running(b) THEN TurnAngle(b, i, n) ELSE b
        d == IF Running(c) THEN PrevDistance(c, i) ELSE c
    IN  IF Running(d) THEN NextDistance(d, i, n) ELSE d

RECURSIVE CollectFrom(_, _, _)
CollectFrom(s, i, n) ==
    IF i > n - 1 \/ ~Running(s) THEN s
    ELSE CollectFrom(Collect(s, i, n), i + 1, n)

----------------------------------------------------------------------------
(* Calculation.traverse: angular misclosure, bearings, coordinates          *)

RECURSIVE SumAngles(_, _, _)
SumAngles(beta, i, n) ==
    IF i > n - 1 THEN 0 ELSE Val(beta[i]) + SumAngles(beta, i + 1, n)

\* the two while loops of lines 336-339
RECURSIVE ReduceDbeta(_)
ReduceDbeta(d) ==
    IF d > Pi THEN ReduceDbeta(d - TwoPi)
    ELSE IF d < -Pi THEN ReduceDbeta(d + TwoPi)
    ELSE d

\* "beta[0] is not None and beta[n - 1] is not None"
BothOrientations(beta, n) == NotNone(beta[0]) /\ NotNone(beta[n - 1])

\* lines 330-342
Dbeta(beta, n) ==
    IF BothOrientations(beta, n)
    THEN ReduceDbeta((n - 1) * Pi - SumAngles(beta, 0, n))
    ELSE 0

\* the misclosure divided by the number of sides instead of stations
VbetaSides(dbeta, n, i) == dbeta \div (n - 1)

\* "vbeta[i] = dbeta / n"
Vbeta(dbeta, n, i) == dbeta \div n

\* the two while loops of lines 383-386
RECURSIVE NormDelta(_)
NormDelta(d) ==
    IF d < 0 THEN NormDelta(d + TwoPi)
    ELSE IF d > TwoPi THEN NormDelta(d - TwoPi)
    ELSE d

\* bearing(p1, p2) of base_classes: the whole circle bearing of p2 seen from p1,
\* atan2(p2.e - p1.e, p2.n - p1.n) in [0, 2 pi), here the direction of the grid
\* that lies closest to it; bearing(p, p) is 0
\* (x, y) and (de, dn) point the same way for whole numbers x, y
Along(a, x, y) == SinInt(a) * x + SinInt(a + HalfPi) * y
RECURSIVE Closest(_, _, _, _, _)
Closest(a, hi, best, x, y) ==
    IF a > hi \/ best > hi THEN best
    ELSE Closest(a + 1, hi, IF Along(best, x, y) < Along(a, x, y) THEN a ELSE best, x, y)
Quadrant(x, y) ==
    IF x >= 0 /\ y > 0 THEN 0
    ELSE IF x > 0 THEN HalfPi
    ELSE IF y < 0 THEN Pi
    ELSE Pi + HalfPi
bearing(e1, n1, e2, n2) ==
    LET de == RSub(e2, e1)
        dn == RSub(n2, n1)
        l == Lcm(de.den, dn.den)
        x == de.num * (l \div de.den)
        y == dn.num * (l \div dn.den)
        lo == Quadrant(x, y)
    IN  IF x = 0 /\ y = 0 THEN 0
        ELSE Mod2Pi(Closest(lo + 1, lo + HalfPi, lo, x, y))

\* lines 364-374: the chain laid out with bearing 0 on its first side
RECURSIVE Provisional(_, _, _, _, _)
Provisional(s, k, n, d, sum) ==
    IF k > n - 1 THEN sum
    ELSE Provisional(s, k + 1, n,
             IF k < n - 1 THEN d + Val(s.beta[k]) - Pi ELSE d,
             [e |-> RAdd(sum.e, RMul(Val(s.t[k]), Sin(d))),
              n |-> RAdd(sum.n, RMul(Val(s.t[k]), Cos(d)))])

\* lines 376-377
InsertedBearing(s, n) ==
    LET startp == Val(Val(s.tr[0].st).p)
        endp == Val(Val(s.tr[n - 1].st).p)
        sum == Provisional(s, 1, n, 0, [e |-> RZero, n |-> RZero])
    IN  bearing(Val(endp.e), Val(endp.n), Val(startp.e), Val(startp.n))
          - bearing(sum.e, sum.n, RZero, RZero)

\* line 376 reads "endp.p.e" and "endp.p.n" whenever beta[0] is None, also in a
\* free traverse, whose end station has no Point or no coordinates
InsertedFails(s, n) == IsNone(s.beta[0]) /\ NoCoords(s.tr[n - 1].st)
InsertedError(s, n) ==
    IF IsNone(Val(s.tr[n - 1].st).p) THEN "AttributeError" ELSE "TypeError"

\* lines 359-387: the bearing of side i
Delta(s, c, i, n) ==
    LET j == i - 1
    IN  NormDelta(
            IF j = 0 THEN
                IF NotNone(s.beta[0])
                THEN c.delta[0] + Val(s.beta[0]) + c.vbeta[0]
                ELSE InsertedBearing(s, n)
            ELSE c.delta[j] + Val(s.beta[j]) + c.vbeta[j] - Pi)

\* lines 358-392
RECURSIVE Sides(_, _, _, _)
Sides(s, c, i, n) ==
    IF i > n - 1 THEN c
    ELSE LET d == Delta(s, c, i, n)
             de == RMul(Val(s.t[i]), Sin(d))
             dn == RMul(Val(s.t[i]), Cos(d))
         IN  Sides(s, [c EXCEPT !.delta[i] = d, !.de[i] = de, !.dn[i] = dn,
                                !.sumde = RAdd(@, de), !.sumdn = RAdd(@, dn),
                                !.sumt = RAdd(@, Val(s.t[i]))],
                   i + 1, n)

\* lines 395-402
Misclosure(s, c, n) ==
    IF s.free THEN [c EXCEPT !.dde = RZero, !.ddn = RZero]
    ELSE LET startp == Val(Val(s.tr[0].st).p)
             endp == Val(Val(s.tr[n - 1].st).p)
         IN  [c EXCEPT !.dde = RSub(RSub(Val(endp.e), Val(startp.e)), c.sumde),
                       !.ddn = RSub(RSub(Val(endp.n), Val(startp.n)), c.sumdn)]

\* the misclosure spread evenly over the sides instead of by their length
CorrectionEven(t, dd, sumt) == RDiv(dd, sumt)

\* "ve[i] = t[i].d * we" with "we = dde / sumt"
Correction(t, dd, sumt) == RMul(t, RDiv(dd, sumt))

\* lines 413-417
RECURSIVE Coordinates(_, _, _, _)
Coordinates(s, c, i, n) ==
    IF i > n - 1 THEN c
    ELSE LET ve == Correction(Val(s.t[i]), c.dde, c.sumt)
             vn == Correction(Val(s.t[i]), c.ddn, c.sumt)
         IN  Coordinates(s, [c EXCEPT !.ve[i] = ve, !.vn[i] = vn,
                                      !.ee[i] = RAdd(RAdd(c.ee[i - 1], c.de[i]), ve),
                                      !.nn[i] = RAdd(RAdd(c.nn[i - 1], c.dn[i]), vn)],
                         i + 1, n)

NoCalc ==
    [done |-> FALSE, n |-> 0, free |-> FALSE, known |-> FALSE, beta |-> <<>>, t |-> <<>>,
     dbeta |-> 0, vbeta |-> <<>>, delta |-> <<>>, de |-> <<>>, dn |-> <<>>,
     sumde |-> RZero, sumdn |-> RZero, sumt |-> RZero, dde |-> RZero, ddn |-> RZero,
     ve |-> <<>>, vn |-> <<>>, ee |-> <<>>, nn |-> <<>>]

\* lines 326-392 and 395-402
Adjust(s, n) ==
    LET dbeta == Dbeta(s.beta, n)
        zero == [i \in 0 .. n - 1 |-> RZero]
        c0 == [NoCalc EXCEPT
                 !.n = n, !.free = s.free, !.known = BothOrientations(s.beta, n),
                 !.beta = s.beta, !.t = s.t, !.dbeta = dbeta,
                 !.vbeta = [i \in 0 .. n - 1 |-> Vbeta(dbeta, n, i)],
                 !.delta = [i \in 0 .. n - 1 |-> 0],
                 !.de = zero, !.dn = zero, !.ve = zero, !.vn = zero,
                 !.ee = zero, !.nn = zero]
    IN  Misclosure(s, Sides(s, c0, 1, n), n)

\* lines 404-417: "dde / sumt" fails on a traverse of total length 0
FinalCoords(s, c, n) ==
    LET startp == Val(Val(s.tr[0].st).p)
    IN  Coordinates(s, [c EXCEPT !.ee[0] = Val(startp.e), !.nn[0] = Val(startp.n),
                                 !.done = TRUE],
                    1, n)

----------------------------------------------------------------------------
(* Calculation.traverse: the report written to the log, the returned list   *)

Pcode(st) ==
    IF NotNone(Val(st).p) /\ NotNone(Val(Val(st).p).pc) THEN Val(Val(Val(st).p).pc)
    ELSE "-"

IdOrDash(st) == IF NotNone(Val(st).p) THEN Val(Val(st).p).id ELSE "-"

\* lines 419-465: the rows of station i; "trav_obs[i][0].p" fails on a station
\* that is None
RECURSIVE Rows(_, _, _)
Rows(s, i, n) ==
    IF i > n - 1 \/ ~Running(s) THEN s
    ELSE IF IsNone(s.tr[i].st) THEN Raise(s, "AttributeError")
    ELSE Rows([s EXCEPT !.log = @ \o <<Line("bearing", "", ""),
                                      Line("station", IdOrDash(s.tr[i].st), ""),
                                      Line("coordinates", Pcode(s.tr[i].st), "")>>],
              i + 1, n)

\* lines 467-486
Summary(s, n) ==
    [s EXCEPT !.log = @
        \o <<Line("", "", "")>>
        \o (IF ~BothOrientations(s.beta, n)
            THEN <<Line("sum of coordinate differences", "", ""),
                   Line("length and sums", "", "")>>
                 \o (IF ~s.free THEN <<Line("coordinate errors", "", "")>> ELSE <<>>)
            ELSE <<Line("sum of coordinate differences", "", ""),
                   Line("sum of angles, length and sums", "", ""),
                   Line("required sum of angles", "", ""),
                   Line("angle error and coordinate errors", "", "")>>)
        \o (IF ~s.free THEN <<Line("linear error", "", "")>> ELSE <<>>)]

\* the end point always left out
LastClosed(free, n) == n - 1

\* "last = n" for a free traverse, "last = n - 1" otherwise
Last(free, n) == IF free THEN n ELSE n - 1

\* lines 493-500: the point of station i with its new coordinates
Computed(st, e, n) ==
    IF NotNone(st) /\ NotNone(Val(st).p)
    THEN [Val(Val(st).p) EXCEPT !.e = Some(e), !.n = Some(n)]
    ELSE Point(Val(st).oid, Some(e), Some(n))

\* the loop started at the start point, each station given the next one's coordinates
WriteBackFromStart(tr, c, last) ==
    [i \in DOMAIN tr |->
        IF i < last /\ NotNone(tr[i].st) /\ NotNone(Val(tr[i].st).p)
        THEN [tr[i] EXCEPT !.st[1].p[1].e = Some(c.ee[i + 1]), !.st[1].p[1].n = Some(c.nn[i + 1])]
        ELSE tr[i]]

\* plist[-1].e = ee[i]: the point of the list is the station's own Point
WriteBack(tr, c, last) ==
    [i \in DOMAIN tr |->
        IF 1 <= i /\ i < last /\ NotNone(tr[i].st) /\ NotNone(Val(tr[i].st).p)
        THEN [tr[i] EXCEPT !.st[1].p[1].e = Some(c.ee[i]), !.st[1].p[1].n = Some(c.nn[i])]
        ELSE tr[i]]

Plist(tr, c, last) ==
    [k \in 1 .. last - 1 |-> Computed(tr[k].st, c.ee[k], c.nn[k])]

----------------------------------------------------------------------------
(* Calculation.traverse as a whole *)

\* "ResultLog.resultlog_message = ''"
ResetLog(lg) == <<>>

Begin(tr, lg) ==
    LET n == Cardinality(DOMAIN tr)
        none == [i \in 0 .. n - 1 |-> None]
    IN  [tr |-> tr, log |-> ResetLog(lg), status |-> "run", exc |-> "", free |-> FALSE,
         beta |-> none, t |-> none, t1 |-> none, t2 |-> none]

\* the end point prepared before the start point is checked
ValidateEndFirst(s, n, ff) ==
    IF TooFewPoints(n) THEN ErrorReturn(s, Line(ErrPoints, "", ""))
    ELSE IF NoCoords(s.tr[0].st) /\ ~ff THEN ErrorReturn(s, Line(ErrStart, "", ""))
    ELSE IF NoCoords(s.tr[0].st)
    THEN ErrorReturn(FreeOrClosed(s, n, ff), Line(ErrStart, "", ""))
    ELSE FreeOrClosed(s, n, ff)

\* lines 224-249
Validate(s, n, ff) ==
    IF TooFewPoints(n) THEN ErrorReturn(s, Line(ErrPoints, "", ""))
    ELSE IF NoCoords(s.tr[0].st) THEN ErrorReturn(s, Line(ErrStart, "", ""))
    ELSE FreeOrClosed(s, n, ff)

\* the end orientation kept under forceFree
KeepEndOrientation(s, n, ff) == s

\* lines 326-327
DropEndOrientation(s, n, ff) ==
    IF ff THEN [s EXCEPT !.beta[n - 1] = None] ELSE s

Outcome(s, rt, c) == [tr |-> s.tr, log |-> s.log, ret |-> rt, calc |-> c]

Aborted(s, c) ==
    Outcome(s, IF s.status = "None" THEN RetNone ELSE RetRaise(s.exc), c)

\* Calculation.traverse(trav_obs, forceFree) called when the log holds lg: the
\* records and the log as the call leaves them, what it returns, its arrays
traverse(tr, ff, lg) ==
    LET n == Cardinality(DOMAIN tr)
        s1 == Validate(Begin(tr, lg), n, ff)
        s2 == CollectFrom(s1, 0, n)
    IN  IF ~Running(s2) THEN Aborted(s2, NoCalc)
        ELSE
            LET s3 == DropEndOrientation(s2, n, ff)
                c == Adjust(s3, n)
            IN  IF InsertedFails(s3, n) THEN Aborted(Raise(s3, InsertedError(s3, n)), NoCalc)
                ELSE IF RIsZero(c.sumt) THEN Aborted(Raise(s3, "ZeroDivisionError"), c)
                ELSE
                    LET c1 == FinalCoords(s3, c, n)
                        s4 == Rows(s3, 0, n)
                    IN  IF ~Running(s4) THEN Aborted(s4, c1)
                        ELSE
                            LET s5 == Summary(s4, n)
                                last == Last(s5.free, n)
                            IN  [tr |-> WriteBack(s5.tr, c1, last),
                                 log |-> s5.log,
                                 ret |-> RetList(Plist(s5.tr, c1, last)),
                                 calc |-> c1]

----------------------------------------------------------------------------
(* Successive calls of Calculation.traverse on one list *)

NoTraverse ==
    /\ trav_obs = <<>>
    /\ forceFree = FALSE
    /\ ret = NotCalled
    /\ rets = <<>>
    /\ pre = <<>>
    /\ calc = NoCalc
    /\ calls = 0

NoIntersection == isect = [called |-> FALSE]
NoInvocations == inv = <<>>
NoOrientation == orient = [calls |-> 0]
NoResection == resect = [called |-> FALSE]
NoPolarpoint == polar = [called |-> FALSE]
NoGauss == gauss = [called |-> FALSE]
NoFit == fit = [called |-> FALSE]
NoJob == job = [opened |-> FALSE]
NoOthers == NoOrientation /\ NoResection /\ NoPolarpoint /\ NoGauss /\ NoFit /\ NoJob

Init ==
    /\ trav_obs \in {TravObsOf(q) : q \in Params}
    /\ forceFree \in BOOLEAN
    /\ log = <<>>
    /\ ret = NotCalled
    /\ rets = <<>>
    /\ pre = trav_obs
    /\ calc = NoCalc
    /\ calls = 0
    /\ NoIntersection
    /\ NoInvocations
    /\ NoOthers

CallTraverse ==
    /\ calls < MaxCalls
    /\ \E r \in {traverse(trav_obs, forceFree, log)} :
           /\ trav_obs' = r.tr
           /\ log' = r.log
           /\ ret' = r.ret
           /\ rets' = Append(rets, r.ret)
           /\ calc' = r.calc
    /\ pre' = trav_obs
    /\ calls' = calls + 1
    /\ UNCHANGED <<forceFree, isect, inv, orient, resect, polar, gauss, fit, job>>

Next == CallTraverse

Spec == Init /\ [][Next]_vars

----------------------------------------------------------------------------
(* Two invocations of Calculation.traverse whose statements interleave.      *)
(* Both write to the one class attribute ResultLog.resultlog_message: each   *)
(* resets it first and then appends its lines one statement at a time.       *)

\* what a call writes, for the inputs whose narrative has at most MaxLines lines
Narratives ==
    {lg \in {traverse(TravObsOf(q), ff, <<>>).log :
                q \in ParamsBadStart \cup ParamsDefect, ff \in BOOLEAN} :
        Len(lg) <= MaxLines}

InitConc ==
    /\ inv \in [1 .. 2 -> [lines : Narratives, pc : {"call"}, w : {0}]]
    /\ log = <<>>
    /\ NoTraverse
    /\ NoIntersection
    /\ NoOthers

\* line 223
Reset(k) ==
    /\ inv[k].pc = "call"
    /\ log' = ResetLog(log)
    /\ inv' = [inv EXCEPT ![k].pc = "write"]
    /\ UNCHANGED <<trav_obs, forceFree, ret, rets, pre, calc, calls, isect, orient, resect, polar, gauss, fit, job>>

\* one "ResultLog.resultlog_message += ..." statement
Write(k) ==
    /\ inv[k].pc = "write"
    /\ inv[k].w < Len(inv[k].lines)
    /\ log' = Append(log, inv[k].lines[inv[k].w + 1])
    /\ inv' = [inv EXCEPT ![k].w = @ + 1]
    /\ UNCHANGED <<trav_obs, forceFree, ret, rets, pre, calc, calls, isect, orient, resect, polar, gauss, fit, job>>

\* the return statement that follows the last line written
Return(k) ==
    /\ inv[k].pc = "write"
    /\ inv[k].w = Len(inv[k].lines)
    /\ inv' = [inv EXCEPT ![k].pc = "done"]
    /\ UNCHANGED <<trav_obs, forceFree, log, ret, rets, pre, calc, calls, isect, orient, resect, polar, gauss, fit, job>>

NextConc == \E k \in 1 .. 2 : Reset(k) \/ Write(k) \/ Return(k)

SpecConc == InitConc /\ [][NextConc]_vars

----------------------------------------------------------------------------
(* Calculation.intersection *)

\* intersecLL(pa, pb, dap, dbp) of base_classes: the point where the line
\* through pa with bearing dap meets the line through pb with bearing dbp,
\* None when the lines are parallel
intersecLL(pa, pb, dap, dbp) ==
    LET det == RSub(RMul(Sin(dap), Cos(dbp)), RMul(Sin(dbp), Cos(dap)))
        t1 == RDiv(RSub(RMul(RSub(Val(pb.e), Val(pa.e)), Cos(dbp)),
                        RMul(RSub(Val(pb.n), Val(pa.n)), Sin(dbp))),
                   det)
    IN  IF RIsZero(det) THEN None
        ELSE Some(Point("@", Some(RAdd(Val(pa.e), RMul(t1, Sin(dap)))),
                             Some(RAdd(Val(pa.n), RMul(t1, Cos(dap))))))

IsectNone == [kind |-> "None", exc |-> "", pp |-> None]
IsectRaise(exc) == [kind |-> "raise", exc |-> exc, pp |-> None]
IsectPoint(pp) == [kind |-> "point", exc |-> "", pp |-> Some(pp)]

\* "s.o.hz.get_angle() + obs.hz.get_angle()" fails when either hz is None
NoBearing(a) ==
    \/ IsNone(a.s1.ohz) \/ IsNone(a.obs1.hz)
    \/ IsNone(a.s2.ohz) \/ IsNone(a.obs2.hz)

\* lines 133-150
Intersect(a) ==
    LET b1 == Val(a.s1.ohz) + Val(a.obs1.hz)
        b2 == Val(a.s2.ohz) + Val(a.obs2.hz)
        pp == intersecLL(Val(a.s1.p), Val(a.s2.p), b1, b2)
        pc == IF IsNone(a.obs1.pc) THEN a.obs2.pc ELSE a.obs1.pc
    IN  IF NoBearing(a) THEN IsectRaise("AttributeError")
        ELSE IF IsNone(pp) THEN IsectNone
        ELSE IsectPoint([Val(pp) EXCEPT !.id = a.obs1.point_id, !.pc = pc])

\* the bearings computed before the point ids are compared
intersectionBearingsFirst(a) ==
    [args |-> a,
     ret |-> IF NoBearing(a) THEN IsectRaise("AttributeError")
             ELSE IF a.obs1.point_id # a.obs2.point_id THEN IsectNone
             ELSE Intersect(a)]

\* Calculation.intersection(s1, obs1, s2, obs2): the arguments as the call
\* leaves them and what it returns
intersection(a) ==
    [args |-> a,
     ret |-> IF a.obs1.point_id # a.obs2.point_id THEN IsectNone ELSE Intersect(a)]

Observation(point_id, hz, pc) ==
    [point_id |-> point_id, hz |-> hz, d |-> None, pc |-> pc]

IsectArgs ==
    [s1 : {Station(Some(Point("A", Some(R(0)), Some(R(0)))), "A", hz) :
              hz \in {None, Some(0), Some(Pi \div 4)}},
     obs1 : {Observation(id, hz, pc) :
              id \in {"p", "q"},
              hz \in {None, Some(Pi \div 4), Some(3 * (Pi \div 4)), Some(5 * (Pi \div 4))},
              pc \in {None, Some("c")}},
     s2 : {Station(Some(Point("B", Some(R(10)), Some(R(10)))), "B", hz) :
              hz \in {None, Some(0)}},
     obs2 : {Observation("p", hz, None) :
              hz \in {None, Some(Pi \div 4), Some(5 * (Pi \div 4)), Some(7 * (Pi \div 4))}}]

InitIntersection ==
    /\ \E a \in IsectArgs :
          isect = [called |-> FALSE, args |-> a, before |-> a,
                   ret |-> [kind |-> "", exc |-> "", pp |-> None]]
    /\ log = <<>>
    /\ NoTraverse
    /\ NoInvocations
    /\ NoOthers

CallIntersection ==
    /\ ~isect.called
    /\ \E r \in {intersection(isect.args)} :
          isect' = [called |-> TRUE, args |-> r.args, before |-> isect.args, ret |-> r.ret]
    /\ UNCHANGED <<trav_obs, forceFree, log, ret, rets, pre, calc, calls, inv, orient, resect, polar, gauss, fit, job>>

NextIntersection == CallIntersection

SpecIntersection == InitIntersection /\ [][NextIntersection]_vars

----------------------------------------------------------------------------
(* Calculation.orientation *)

MaxRefs == 3

\* math.sqrt to three decimals
DistScale == 1000
RECURSIVE SqrtSearch(_, _, _)
SqrtSearch(lo, hi, v) ==
    IF lo >= hi THEN lo
    ELSE LET mid == (lo + hi + 1) \div 2
         IN  IF mid * mid <= v THEN SqrtSearch(mid, hi, v)
             ELSE SqrtSearch(lo, mid - 1, v)
Sqrt(x) ==
    LET v == (x.num * DistScale * DistScale) \div x.den
    IN  Norm(SqrtSearch(0, 46340, v), DistScale)

\* distance2d(p1, p2) of base_classes: the horizontal distance of two points
distance2d(p1, p2) ==
    LET de == RSub(Val(p2.e), Val(p1.e))
        dn == RSub(Val(p2.n), Val(p1.n))
    IN  Sqrt(RAdd(RMul(de, de), RMul(dn, dn)))

\* Angle.get_angle('SEC'): an angle unit of the model is 1.5 degrees
SecPerUnit == 5400
Sec(a) == a * SecPerUnit
\* PISEC and RO of base_classes: pi in seconds, the seconds of one radian
PISEC == 648000
RO == 206265

\* element k of a Python list, k counted from 0
Item(ref, k) == ref[k + 1]

\* lines 39-53 for one reference: what the loop appends to ref, or nothing
\* when obs.hz is None and get_angle fails
NoHz(ref) == IsNone(Item(ref, 1).hz)
Measured(st, ref) ==
    LET pt == Item(ref, 0)
        b == bearing(Val(Val(st.p).e), Val(Val(st.p).n), Val(pt.e), Val(pt.n))
        r == Val(Item(ref, 1).hz)
        z == IF b - r < 0 THEN b - r + TwoPi ELSE b - r
        d == distance2d(Val(st.p), pt)
    IN  [d |-> d, z |-> z, r |-> r, b |-> b]

\* the sums keep only the last reference
AccumulateLast(acc, m) ==
    [sd |-> RAdd(acc.sd, m.d),
     sz |-> RMul(Sin(m.z), m.d),
     cz |-> RMul(Cos(m.z), m.d)]

\* lines 47-49
Accumulate(acc, m) ==
    [sd |-> RAdd(acc.sd, m.d),
     sz |-> RAdd(acc.sz, RMul(Sin(m.z), m.d)),
     cz |-> RAdd(acc.cz, RMul(Cos(m.z), m.d))]

\* lines 38-53: the loop from reference k on; it stops at the first reference
\* whose observation has no hz, leaving the later references untouched
RECURSIVE Measure(_, _, _, _)
Measure(st, refs, k, acc) ==
    IF k > Len(refs) THEN [refs |-> refs, acc |-> acc, exc |-> ""]
    ELSE IF NoHz(refs[k]) THEN [refs |-> refs, acc |-> acc, exc |-> "AttributeError"]
    ELSE LET m == Measured(st, refs[k])
         IN  Measure(st, [refs EXCEPT ![k] = @ \o <<m.d, m.z, m.r, m.b>>], k + 1,
                     Accumulate(acc, m))

\* lines 58-63: atan2 of the two means, made non-negative
MeanAngle(acc) ==
    bearing(RZero, RZero, RDiv(acc.sz, acc.sd), RDiv(acc.cz, acc.sd))

\* the error is left as the difference of the two angles
ClampNot(e) == e

\* lines 71-74
Clamp(e) ==
    LET e1 == IF e > PISEC THEN e - 2 * PISEC ELSE e
    IN  IF e1 < -PISEC THEN e1 + 2 * PISEC ELSE e1

\* lines 70-88 for one reference, display unit DEG or DMS
Residual(ref, za) ==
    LET e == Clamp(Sec(Item(ref, 3)) - Sec(za))
    IN  [point_id |-> Item(ref, 1).point_id,
         pc |-> IF NotNone(Item(ref, 1).pc) THEN Val(Item(ref, 1).pc) ELSE "-",
         r |-> Item(ref, 4), b |-> Item(ref, 5), z |-> Item(ref, 3),
         d |-> Item(ref, 2), e |-> e,
         E |-> RMul(RDiv(R(e), R(RO)), Item(ref, 2))]

OrientRaise(exc) == [kind |-> "raise", exc |-> exc, za |-> None, rows |-> <<>>]
OrientAngle(refs, za) ==
    [kind |-> "angle", exc |-> "", za |-> Some(za),
     rows |-> [k \in 1 .. Len(refs) |-> Residual(refs[k], za)]]

\* a total distance of 0 is averaged as the angle 0
AveragedUnchecked(refs, acc) ==
    IF RIsZero(acc.sd) THEN OrientAngle(refs, 0)
    ELSE OrientAngle(refs, MeanAngle(acc))

\* lines 55-89: the check of the total distance, the mean and the table
Averaged(refs, acc) ==
    IF RIsZero(acc.sd) THEN OrientRaise("ValueError: Total distance is 0")
    ELSE OrientAngle(refs, MeanAngle(acc))

\* Calculation.orientation(st, ref_list): ref_list as the call leaves it and
\* what the call returns
orientation(st, ref_list) ==
    LET lp == Measure(st, ref_list, 1, [sd |-> RZero, sz |-> RZero, cz |-> RZero])
    IN  [ref_list |-> lp.refs,
         ret |-> IF lp.exc # "" THEN OrientRaise(lp.exc) ELSE Averaged(lp.refs, lp.acc)]

\* the stations and references explored: all distances are whole numbers
OrientStations ==
    <<Station(Some(Point("S1", Some(R(10)), Some(R(20)))), "S1", None),
      Station(Some(Point("S2", Some(R(13)), Some(R(24)))), "S2", None)>>
StationAt(k) == OrientStations[((k - 1) % 2) + 1]
Refs ==
    {<<Point("S1", Some(R(10)), Some(R(20))), Observation("S1", Some(20), None)>>,
     <<Point("P", Some(R(13)), Some(R(20))), Observation("P", Some(20), None)>>,
     <<Point("Q", Some(R(10)), Some(R(24))), Observation("Q", Some(130), None)>>,
     <<Point("Q", Some(R(10)), Some(R(24))), Observation("Q", None, None)>>,
     <<Point("P", Some(R(13)), Some(R(20))), Observation("P", Some(-130), Some("c"))>>}
RefLists == UNION {[1 .. m -> Refs] : m \in 0 .. MaxRefs}

InitOrientation ==
    /\ \E l \in RefLists :
          orient = [calls |-> 0, ref_list |-> l, before |-> l, rets |-> <<>>]
    /\ log = <<>>
    /\ NoTraverse /\ NoIntersection /\ NoInvocations
    /\ NoResection /\ NoPolarpoint /\ NoGauss
    /\ NoFit /\ NoJob

CallOrientation ==
    /\ orient.calls < MaxCalls
    /\ \E r \in {orientation(StationAt(orient.calls + 1), orient.ref_list)} :
          orient' = [calls |-> orient.calls + 1, ref_list |-> r.ref_list,
                     before |-> orient.ref_list, rets |-> Append(orient.rets, r.ret)]
    /\ UNCHANGED <<trav_obs, forceFree, log, ret, rets, pre, calc, calls, isect, inv,
                   resect, polar, gauss, fit, job>>

NextOrientation == CallOrientation

SpecOrientation == InitOrientation /\ [][NextOrientation]_vars

----------------------------------------------------------------------------
(* Calculation.resection *)

\* the control points and the points the two circles can meet in: p2 itself,
\* points 0.05 and 0.1 north of it, and a point far from it
ControlPoint(id, e) == Point(id, Some(R(e)), Some(R(80)))
ShiftN(p, num, den) == [p EXCEPT !.id = "@", !.n = Some(RAdd(Val(p.n), Norm(num, den)))]
Candidates(p2) ==
    {ShiftN(p2, 0, 1), ShiftN(p2, 1, 20), ShiftN(p2, 1, 10),
     [ShiftN(p2, 63, 1) EXCEPT !.e = Some(R(-30))]}

\* intersecCC(circ1, circ2) of base_classes, the circles being Circle(p1, p2,
\* alpha) and Circle(p2, p3, beta): what the call can produce.  It returns no
\* point or two different points; both circles pass through p2, so one of two
\* points is p2 up to rounding; a degenerate circle has no centre and the call fails.
SharedPairs(p2) ==
    {q \in {ShiftN(p2, 0, 1), ShiftN(p2, 1, 20)} \X Candidates(p2) : q[1] # q[2]}
intersecCC(p2) ==
    {[kind |-> "raise", points |-> <<>>], [kind |-> "list", points |-> <<>>]}
        \cup {[kind |-> "list", points |-> <<q[1], q[2]>>] : q \in SharedPairs(p2)}
        \cup {[kind |-> "list", points |-> <<q[2], q[1]>>] : q \in SharedPairs(p2)}

ResectNone == [kind |-> "None", exc |-> "", p |-> None, rows |-> <<>>]
ResectRaise(exc) == [kind |-> "raise", exc |-> exc, p |-> None, rows |-> <<>>]

\* math.fabs(p2.e - p.e) < 0.1 and math.fabs(p2.n - p.n) < 0.1
Tolerance == Norm(1, 10)
RAbs(x) == IF x.num < 0 THEN RNeg(x) ELSE x
RLess(x, y) == RSign(RSub(x, y)) < 0
NearP2(p2, p) ==
    /\ RLess(RAbs(RSub(Val(p2.e), Val(p.e))), Tolerance)
    /\ RLess(RAbs(RSub(Val(p2.n), Val(p.n))), Tolerance)

\* lines 184-187: points[1] when points[0] is near p2, else points[0]
Select(p2, points) == IF NearP2(p2, points[1]) THEN points[2] ELSE points[1]

\* lines 185/187 and 189-200: the station point with the coordinates selected
Resolved(a, q) ==
    LET stp == Val(a.st.p)
        p == [id |-> stp.id, e |-> q.e, n |-> q.n, z |-> stp.z, pc |-> stp.pc, pt |-> stp.pt]
        row(o, pt) == [point_id |-> o.point_id,
                       pc |-> IF NotNone(o.pc) THEN Val(o.pc) ELSE "-",
                       e |-> pt.e, n |-> pt.n, hz |-> o.hz]
    IN  [kind |-> "point", exc |-> "", p |-> Some(p),
         rows |-> <<row(a.obs1, a.p1), row(a.obs2, a.p2), row(a.obs3, a.p3),
                    [point_id |-> p.id, pc |-> IF NotNone(p.pc) THEN Val(p.pc) ELSE "-",
                     e |-> p.e, n |-> p.n, hz |-> None]>>]

\* no two points give the soft result None
NoTwoPointsNone(a) == ResectNone

\* lines 201-202: "raise IndexError('There must be exactly two points')", which
\* the except clause of line 203 does not catch
NoTwoPoints(a) == ResectRaise("IndexError")

\* lines 167-168: get_angle on an hz that is None
NoInscribedAngle(a) == IsNone(a.obs1.hz) \/ IsNone(a.obs2.hz) \/ IsNone(a.obs3.hz)

\* Calculation.resection(st, p1, p2, p3, obs1, obs2, obs3), cc being what
\* intersecCC produces for the two circles
resection(a, cc) ==
    IF NoInscribedAngle(a) THEN ResectRaise("AttributeError")
    ELSE IF cc.kind = "raise" THEN ResectRaise("AttributeError")
    ELSE IF Len(cc.points) = 2 THEN Resolved(a, Select(a.p2, cc.points))
    ELSE NoTwoPoints(a)

ResectArgs ==
    [st : {Station(Some([Point("3", None, None) EXCEPT !.z = z, !.pc = pc]), "3", None) :
              z \in {None, Some(R(7))}, pc \in {None, Some("c")}},
     p1 : {ControlPoint("101", -50)},
     p2 : {ControlPoint("102", 0)},
     p3 : {ControlPoint("103", 50)},
     obs1 : {Observation("101", hz, pc) : hz \in {None, Some(94)}, pc \in {None, Some("c")}},
     obs2 : {Observation("102", hz, None) : hz \in {None, Some(65)}},
     obs3 : {Observation("103", hz, None) : hz \in {None, Some(47)}}]

InitResection ==
    /\ \E a \in ResectArgs :
          resect = [called |-> FALSE, args |-> a, before |-> a,
                    cc |-> [kind |-> "", points |-> <<>>], ret |-> ResectNone]
    /\ log = <<>>
    /\ NoTraverse /\ NoIntersection /\ NoInvocations
    /\ NoOrientation /\ NoPolarpoint /\ NoGauss
    /\ NoFit /\ NoJob

CallResection ==
    /\ ~resect.called
    /\ \E cc \in intersecCC(resect.args.p2) :
          resect' = [called |-> TRUE, args |-> resect.args, before |-> resect.args,
                     cc |-> IF NoInscribedAngle(resect.args)
                            THEN [kind |-> "", points |-> <<>>] ELSE cc,
                     ret |-> resection(resect.args, cc)]
    /\ UNCHANGED <<trav_obs, forceFree, log, ret, rets, pre, calc, calls, isect, inv,
                   orient, polar, gauss, fit, job>>

NextResection == CallResection

SpecResection == InitResection /\ [][NextResection]_vars

----------------------------------------------------------------------------
(* Calculation.polarpoint *)

\* a station with its instrument height st.o.th, and an observation with its
\* zenith angle v, slope distance d, target height th, point code and type
Station3D(p, hz, th) == [p |-> p, oid |-> Val(p).id, ohz |-> hz, oth |-> th]
Observation3D(point_id, hz, v, d, th, pc, pt) ==
    [point_id |-> point_id, hz |-> hz, v |-> v, d |-> d, th |-> th, pc |-> pc, pt |-> pt]

\* PolarObservation.horiz_dist() of base_classes for a slope distance: d * sin(v)
\* with a zenith angle, d without one
slope_horiz_dist(obs) ==
    IF NotNone(obs.v) THEN RMul(Val(obs.d), Sin(Val(obs.v))) ELSE Val(obs.d)

PolarRaise(exc) == [kind |-> "raise", exc |-> exc, p |-> None]

\* the target height is left out
ElevationNoTarget(st, obs) ==
    IF NotNone(Val(st.p).z) /\ NotNone(st.oth) /\ NotNone(obs.v)
    THEN Some(RAdd(RAdd(Val(Val(st.p).z), Val(st.oth)), RMul(Val(obs.d), Cos(Val(obs.v)))))
    ELSE None

\* lines 105-110
Elevation(st, obs) ==
    IF NotNone(Val(st.p).z) /\ NotNone(st.oth) /\ NotNone(obs.v)
    THEN LET z == RAdd(RAdd(Val(Val(st.p).z), Val(st.oth)),
                       RMul(Val(obs.d), Cos(Val(obs.v))))
         IN  IF NotNone(obs.th) THEN Some(RSub(z, Val(obs.th))) ELSE Some(z)
    ELSE None

\* Calculation.polarpoint(st, obs): the arguments as the call leaves them and
\* what it returns
polarpoint(st, obs) ==
    LET b == Val(st.ohz) + Val(obs.hz)
        e == RAdd(Val(Val(st.p).e), RMul(slope_horiz_dist(obs), Sin(b)))
        n == RAdd(Val(Val(st.p).n), RMul(slope_horiz_dist(obs), Cos(b)))
    IN  [st |-> st, obs |-> obs,
         ret |-> IF IsNone(st.ohz) \/ IsNone(obs.hz) THEN PolarRaise("AttributeError")
                 ELSE IF IsNone(obs.d) THEN PolarRaise("TypeError")
                 ELSE [kind |-> "point", exc |-> "",
                       p |-> Some([id |-> obs.point_id, e |-> Some(e), n |-> Some(n),
                                   z |-> Elevation(st, obs), pc |-> obs.pc, pt |-> obs.pt])]]

PolarStations ==
    {Station3D(Some([Point("1", Some(R(10)), Some(R(20))) EXCEPT !.z = z]), hz, th) :
        z \in {None, Some(R(30))}, hz \in {None, Some(0)}, th \in {None, Some(R(1))}}
PolarObservations ==
    {Observation3D("2", hz, v, d, th, pc, pt) :
        hz \in {None, Some(HalfPi)}, v \in {None, Some(Pi \div 4), Some(HalfPi)},
        d \in {None, Some(R(20))}, th \in {None, Some(Norm(7, 2))},
        pc \in {None, Some("c")}, pt \in {None, Some("t")}}

InitPolarpoint ==
    /\ \E st \in PolarStations, obs \in PolarObservations :
          polar = [called |-> FALSE, st |-> st, obs |-> obs,
                   before |-> [st |-> st, obs |-> obs], ret |-> PolarRaise("")]
    /\ log = <<>>
    /\ NoTraverse /\ NoIntersection /\ NoInvocations
    /\ NoOrientation /\ NoResection /\ NoGauss
    /\ NoFit /\ NoJob

CallPolarpoint ==
    /\ ~polar.called
    /\ \E r \in {polarpoint(polar.st, polar.obs)} :
          polar' = [called |-> TRUE, st |-> r.st, obs |-> r.obs,
                    before |-> [st |-> polar.st, obs |-> polar.obs], ret |-> r.ret]
    /\ UNCHANGED <<trav_obs, forceFree, log, ret, rets, pre, calc, calls, isect, inv,
                   orient, resect, gauss, fit, job>>

NextPolarpoint == CallPolarpoint

SpecPolarpoint == InitPolarpoint /\ [][NextPolarpoint]_vars

----------------------------------------------------------------------------
(* Calculation.gauss_elimination *)

MaxSize == 3

\* lines 516-520: row i after it is multiplied by q, q itself on the diagonal
ScaleRow(row, i, q) ==
    [k \in 1 .. Len(row) |-> IF i # k THEN RMul(q, row[k]) ELSE q]

\* line 530 with the sign of t kept
ReduceRowPlus(row, pivotRow, i, q) ==
    [k \in 1 .. Len(row) |->
        IF i # k THEN RSub(row[k], RMul(row[i], pivotRow[k]))
        ELSE RMul(row[i], q)]

\* lines 525-530: row j, with t = a[j][i], less t times the scaled row i
ReduceRow(row, pivotRow, i, q) ==
    [k \in 1 .. Len(row) |->
        IF i # k THEN RSub(row[k], RMul(row[i], pivotRow[k]))
        ELSE RMul(RNeg(row[i]), q)]

\* line 515: 1.0 / a[i][i] with a zero a[i][i]; the lists stay as the
\* iterations before left them
GaussRaise(a, b, pivots) ==
    [kind |-> "raise", exc |-> "ZeroDivisionError", a |-> a, b |-> b, pivots |-> pivots]

\* line 532: the lists handed in are the lists returned
GaussReturn(a, b, pivots) ==
    [kind |-> "return", exc |-> "", a |-> a, b |-> b, pivots |-> pivots]

\* lines 514-531 from iteration i on; pivots are the a[i][i] met so far
RECURSIVE Eliminate(_, _, _, _)
Eliminate(a, b, i, pivots) ==
    IF i > Len(b) THEN GaussReturn(a, b, pivots)
    ELSE IF RIsZero(a[i][i]) THEN GaussRaise(a, b, Append(pivots, a[i][i]))
    ELSE LET q == RDiv(R(1), a[i][i])
             ai == ScaleRow(a[i], i, q)
             bi == RMul(q, b[i])
         IN  Eliminate([j \in 1 .. Len(b) |->
                            IF j # i THEN ReduceRow(a[j], ai, i, q) ELSE ai],
                       [j \in 1 .. Len(b) |->
                            IF j # i THEN RSub(b[j], RMul(a[j][i], bi)) ELSE bi],
                       i + 1, Append(pivots, a[i][i]))

\* Calculation.gauss_elimination(a, b): a and b as the call leaves them, the
\* pivots it divided by, and how it ended; on return x is b and inv is a
gauss_elimination(a, b) == Eliminate(a, b, 1, <<>>)

\* the systems explored: a[1][1] = s, the rest of the diagonal p, q above it
\* and r below it, so every matrix up to size 2 over the entries; b alternates
Tiny == Norm(1, 1000)
Entries == {R(0), R(1), R(2)}
Matrix(n, s, p, q, r) ==
    [i \in 1 .. n |-> [k \in 1 .. n |->
        IF i = 1 /\ k = 1 THEN s ELSE IF i = k THEN p ELSE IF i < k THEN q ELSE r]]
Vector(n, u, v) == [i \in 1 .. n |-> IF i % 2 = 1 THEN u ELSE v]
Systems ==
    {[a |-> Matrix(t[1], t[2], t[3], t[4], t[5]), b |-> Vector(t[1], t[6], t[7])] :
        t \in (1 .. MaxSize) \X (Entries \cup {Tiny}) \X Entries \X Entries \X Entries
                \X {R(1), R(3)} \X {R(0), R(1)}}

InitGauss ==
    /\ \E s \in Systems :
          gauss = [called |-> FALSE, a |-> s.a, b |-> s.b, before |-> s,
                   ret |-> GaussRaise(<<>>, <<>>, <<>>)]
    /\ log = <<>>
    /\ NoTraverse /\ NoIntersection /\ NoInvocations
    /\ NoOrientation /\ NoResection /\ NoPolarpoint
    /\ NoFit /\ NoJob

CallGauss ==
    /\ ~gauss.called
    /\ \E r \in {gauss_elimination(gauss.a, gauss.b)} :
          gauss' = [called |-> TRUE, a |-> r.a, b |-> r.b,
                    before |-> [a |-> gauss.a, b |-> gauss.b], ret |-> r]
    /\ UNCHANGED <<trav_obs, forceFree, log, ret, rets, pre, calc, calls, isect, inv,
                   orient, resect, polar, fit, job>>

NextGauss == CallGauss

SpecGauss == InitGauss /\ [][NextGauss]_vars

----------------------------------------------------------------------------
(* Calculation.orthogonal_transformation, orthogonal3tr, affine_transformation,
   polynomial_transformation *)

MaxPoints == 3

RECURSIVE SumOf(_)
SumOf(s) == IF s = <<>> THEN RZero ELSE RAdd(s[1], SumOf(Tail(s)))
\* math.pow(x, k) for an integer k >= 0; math.pow(0.0, 0) is 1.0
RECURSIVE RPow(_, _)
RPow(x, k) == IF k = 0 THEN R(1) ELSE RMul(x, RPow(x, k - 1))

\* plist[i] == [srci, desti]: p[0] is src, p[1] is dst
Pair(src, dst) == [src |-> src, dst |-> dst]
Over(plist, F(_)) == SumOf([i \in 1 .. Len(plist) |-> F(plist[i])])
Count(plist) == R(Len(plist))

FitRaise(exc) ==
    [kind |-> "raise", exc |-> exc, params |-> <<>>, x2 |-> <<>>, avg |-> <<>>,
     a1 |-> <<>>, N1 |-> <<>>]
FitReturn(params) ==
    [kind |-> "return", exc |-> "", params |-> params, x2 |-> <<>>, avg |-> <<>>,
     a1 |-> <<>>, N1 |-> <<>>]

\* lines 543-556 and 651-664: the sums of the coordinates and their means
SrcE(p) == Val(p.src.e)
SrcN(p) == Val(p.src.n)
DstE(p) == Val(p.dst.e)
DstN(p) == Val(p.dst.n)
Means(plist) ==
    [ew |-> RDiv(Over(plist, SrcE), Count(plist)), nw |-> RDiv(Over(plist, SrcN), Count(plist)),
     Ew |-> RDiv(Over(plist, DstE), Count(plist)), Nw |-> RDiv(Over(plist, DstN), Count(plist))]
\* lines 563-566, 674-677: a pair reduced to the weight point
Reduced(p, w) ==
    [e |-> RSub(SrcE(p), w.ew), n |-> RSub(SrcN(p), w.nw),
     E |-> RSub(DstE(p), w.Ew), N |-> RSub(DstN(p), w.Nw)]
ReducedList(plist) == [i \in 1 .. Len(plist) |-> Reduced(plist[i], Means(plist))]

\* c and d exchanged in E0 and N0
OrthogonalParamsSwapped(plist, s1, s2, s3) ==
    LET c == RDiv(s1, s3)
        d == RDiv(s2, s3)
    IN  <<RDiv(RAdd(RSub(Over(plist, DstE), RMul(d, Over(plist, SrcE))), RMul(c, Over(plist, SrcN))),
               Count(plist)),
          RDiv(RSub(RSub(Over(plist, DstN), RMul(d, Over(plist, SrcN))), RMul(c, Over(plist, SrcE))),
               Count(plist)),
          c, d>>

\* lines 571-575
OrthogonalParams(plist, s1, s2, s3) ==
    LET c == RDiv(s1, s3)
        d == RDiv(s2, s3)
    IN  <<RDiv(RAdd(RSub(Over(plist, DstE), RMul(c, Over(plist, SrcE))), RMul(d, Over(plist, SrcN))),
               Count(plist)),
          RDiv(RSub(RSub(Over(plist, DstN), RMul(c, Over(plist, SrcN))), RMul(d, Over(plist, SrcE))),
               Count(plist)),
          c, d>>

\* Calculation.orthogonal_transformation(plist)
orthogonal_transformation(plist) ==
    IF Len(plist) = 0 THEN FitRaise("ZeroDivisionError")
    ELSE LET r == ReducedList(plist)
             s1 == SumOf([i \in 1 .. Len(r) |-> RAdd(RMul(r[i].e, r[i].E), RMul(r[i].n, r[i].N))])
             s2 == SumOf([i \in 1 .. Len(r) |-> RSub(RMul(r[i].e, r[i].N), RMul(r[i].n, r[i].E))])
             s3 == SumOf([i \in 1 .. Len(r) |-> RAdd(RMul(r[i].e, r[i].e), RMul(r[i].n, r[i].n))])
         IN  IF RIsZero(s3) THEN FitRaise("ZeroDivisionError")
             ELSE FitReturn(OrthogonalParams(plist, s1, s2, s3))

\* Calculation.orthogonal3tr(plist): the sums of lines 602-617 are locals; line 620
\* makes ata an empty list and line 621 indexes it
orthogonal3tr(plist) ==
    LET appr == orthogonal_transformation(plist)
    IN  IF appr.kind = "raise" THEN appr ELSE FitRaise("IndexError")

\* lines 686-692
AffineParams(plist, s, w) ==
    LET a == RNeg(RDiv(RSub(RMul(s[5], s[3]), RMul(s[4], s[2])), w))
        b == RNeg(RDiv(RSub(RMul(s[4], s[3]), RMul(s[1], s[5])), w))
        c == RNeg(RDiv(RSub(RMul(s[7], s[3]), RMul(s[6], s[2])), w))
        d == RNeg(RDiv(RSub(RMul(s[6], s[3]), RMul(s[7], s[1])), w))
    IN  <<RDiv(RSub(RSub(Over(plist, DstE), RMul(a, Over(plist, SrcE))), RMul(b, Over(plist, SrcN))),
               Count(plist)),
          RDiv(RSub(RSub(Over(plist, DstN), RMul(c, Over(plist, SrcE))), RMul(d, Over(plist, SrcN))),
               Count(plist)),
          a, b, c, d>>

\* lines 666-683: s1 .. s7
AffineSums(r) ==
    <<SumOf([i \in 1 .. Len(r) |-> RMul(r[i].e, r[i].e)]),
      SumOf([i \in 1 .. Len(r) |-> RMul(r[i].n, r[i].n)]),
      SumOf([i \in 1 .. Len(r) |-> RMul(r[i].e, r[i].n)]),
      SumOf([i \in 1 .. Len(r) |-> RMul(r[i].e, r[i].E)]),
      SumOf([i \in 1 .. Len(r) |-> RMul(r[i].n, r[i].E)]),
      SumOf([i \in 1 .. Len(r) |-> RMul(r[i].e, r[i].N)]),
      SumOf([i \in 1 .. Len(r) |-> RMul(r[i].n, r[i].N)])>>

\* Calculation.affine_transformation(plist)
affine_transformation(plist) ==
    IF Len(plist) = 0 THEN FitRaise("ZeroDivisionError")
    ELSE LET s == AffineSums(ReducedList(plist))
             w == RSub(RMul(s[1], s[2]), RMul(s[3], s[3]))
         IN  IF RIsZero(w) THEN FitRaise("ZeroDivisionError")
             ELSE FitReturn(AffineParams(plist, s, w))

\* a list of lists as Python holds it: rows[refs[i]] is the list a[i]; two
\* indices with the same ref are the same list object
Get(M, i, k) == M.rows[M.refs[i]][k]
Put(M, i, k, v) == [M EXCEPT !.rows[M.refs[i]][k] = v]
Lists(M) == [i \in 1 .. Len(M.refs) |-> M.rows[M.refs[i]]]
\* [[0.0] * m] * n: the one inner list, n times
Repeated(m, n) ==
    [refs |-> [i \in 1 .. n |-> 1], rows |-> <<[k \in 1 .. m |-> RZero]>>]

\* lines 516-520 of gauss_elimination, from column k on
RECURSIVE ScaleFrom(_, _, _, _)
ScaleFrom(M, i, q, k) ==
    IF k > Len(M.refs) THEN M
    ELSE ScaleFrom(Put(M, i, k, IF i # k THEN RMul(q, Get(M, i, k)) ELSE q), i, q, k + 1)

\* lines 526-530, from column k on
RECURSIVE ReduceFrom(_, _, _, _, _, _)
ReduceFrom(M, i, j, t, q, k) ==
    IF k > Len(M.refs) THEN M
    ELSE ReduceFrom(Put(M, j, k, IF i # k THEN RSub(Get(M, j, k), RMul(t, Get(M, i, k)))
                                 ELSE RMul(RNeg(t), q)),
                    i, j, t, q, k + 1)

\* lines 523-531, from row j on
RECURSIVE RowsFrom(_, _, _, _, _)
RowsFrom(M, b, i, q, j) ==
    IF j > Len(b) THEN [M |-> M, b |-> b]
    ELSE IF j = i THEN RowsFrom(M, b, i, q, j + 1)
    ELSE RowsFrom(ReduceFrom(M, i, j, Get(M, j, i), q, 1),
                  [b EXCEPT ![j] = RSub(b[j], RMul(Get(M, j, i), b[i]))], i, q, j + 1)

\* lines 514-532 statement by statement on lists that may share rows
RECURSIVE EliminateFrom(_, _, _)
EliminateFrom(M, b, i) ==
    IF i > Len(b) THEN [kind |-> "return", exc |-> "", a |-> M, b |-> b]
    ELSE IF RIsZero(Get(M, i, i)) THEN [kind |-> "raise", exc |-> "ZeroDivisionError", a |-> M, b |-> b]
    ELSE LET q == RDiv(R(1), Get(M, i, i))
             r == RowsFrom(ScaleFrom(M, i, q, 1), [b EXCEPT ![i] = RMul(q, b[i])], i, q, 1)
         IN  EliminateFrom(r.M, r.b, i + 1)

\* lines 736-741 in the order of ll: j the power of n, k the power of e
RECURSIVE Terms(_, _, _)
Terms(j, k, degree) ==
    IF j > degree THEN <<>>
    ELSE IF k > degree THEN Terms(j + 1, 0, degree)
    ELSE (IF j + k <= degree THEN <<[j |-> j, k |-> k]>> ELSE <<>>) \o Terms(j, k + 1, degree)
Monomials(e, n, degree) ==
    [ll \in 1 .. Len(Terms(0, 0, degree)) |->
        RMul(RPow(e, Terms(0, 0, degree)[ll].k), RPow(n, Terms(0, 0, degree)[ll].j))]

\* line 739 for one point, from entry ll on
RECURSIVE FillRow(_, _, _, _)
FillRow(M, i, mono, ll) ==
    IF ll > Len(mono) THEN M ELSE FillRow(Put(M, i, ll, mono[ll]), i, mono, ll + 1)

\* lines 730-744 from point i on
RECURSIVE Design(_, _, _, _)
Design(M, r, degree, i) ==
    IF i > Len(r) THEN M
    ELSE Design(FillRow(M, i, Monomials(r[i].e, r[i].n, degree), 1), r, degree, i + 1)

\* lines 755-758 (N1[i][j] = s1, then N1[j][i] = s1) from column j on
RECURSIVE NormalRow(_, _, _, _)
NormalRow(N, a, i, j) ==
    IF j > Len(N.refs) THEN N
    ELSE LET s1 == SumOf([k \in 1 .. Len(a) |-> RMul(a[k][i], a[k][j])])
         IN  NormalRow(Put(Put(N, i, j, s1), j, i, s1), a, i, j + 1)

\* lines 750-760 from row i on
RECURSIVE Normal(_, _, _)
Normal(N, a, i) ==
    IF i > Len(N.refs) THEN N ELSE Normal(NormalRow(N, a, i, i), a, i + 1)

\* lines 761-768
NormalTerm(a, l, m) ==
    [i \in 1 .. m |-> SumOf([k \in 1 .. Len(a) |-> RMul(a[k][i], l[k])])]

\* Calculation.polynomial_transformation(plist, degree); a2 and N2 are built by
\* the same statements as a1 and N1 and hold the same values; a1 and N1 are
\* kept as they are when the solver is called
polynomial_transformation(plist, degree) ==
    IF Len(plist) = 0 THEN FitRaise("ZeroDivisionError")
    ELSE LET r == ReducedList(plist)
             w == Means(plist)
             m == ((degree + 1) * (degree + 2)) \div 2
             a1 == Lists(Design(Repeated(m, Len(plist)), r, degree, 1))
             N1 == Normal(Repeated(m, m), a1, 1)
             x1 == EliminateFrom(N1, NormalTerm(a1, [i \in 1 .. Len(r) |-> r[i].E], m), 1)
             x2 == EliminateFrom(N1, NormalTerm(a1, [i \in 1 .. Len(r) |-> r[i].N], m), 1)
         IN  IF x1.kind = "raise" \/ x2.kind = "raise"
             THEN [FitRaise("ZeroDivisionError") EXCEPT !.a1 = a1, !.N1 = Lists(N1)]
             ELSE [kind |-> "return", exc |-> "", params |-> x1.b, x2 |-> x2.b,
                   avg |-> <<w.ew, w.nw, w.Ew, w.Nw>>, a1 |-> a1, N1 |-> Lists(N1)]

\* the pairs explored: source points of a small grid, destinations obtained from
\* them by E = E0 + a*e + b*n, N = N0 + c*e + d*n
SrcPoints == {<<0, 0>>, <<1, 0>>, <<0, 1>>, <<1, 1>>, <<2, 0>>}
Gens == {<<10, 20, 2, -1, 1, 2>>, <<10, -5, 1, 0, 0, 1>>,
         <<10, 20, 2, -1, 1, 3>>, <<-3, 4, 1, 2, 0, 1>>}
Image(g, s) ==
    Pair(Point("s", Some(R(s[1])), Some(R(s[2]))),
         Point("d", Some(R(g[1] + g[3] * s[1] + g[4] * s[2])),
                    Some(R(g[2] + g[5] * s[1] + g[6] * s[2]))))
SrcLists == UNION {[1 .. m -> SrcPoints] : m \in 0 .. MaxPoints}
\* the polynomial fit is explored where its solver stays within the integers of
\* the check: degree 1 (3 unknowns) on at most two pairs
Degrees == {1}
PolyLengths == {0, 1, 2}

InitFit ==
    /\ \E g \in Gens, l \in SrcLists :
          fit = [called |-> FALSE, fn |-> "", degree |-> 0, gen |-> g,
                 plist |-> [i \in 1 .. Len(l) |-> Image(g, l[i])], ret |-> FitRaise("")]
    /\ log = <<>>
    /\ NoTraverse /\ NoIntersection /\ NoInvocations
    /\ NoOrientation /\ NoResection /\ NoPolarpoint /\ NoGauss /\ NoJob

Fitted(fn, degree, r) ==
    /\ fit' = [fit EXCEPT !.called = TRUE, !.fn = fn, !.degree = degree, !.ret = r]
    /\ UNCHANGED <<trav_obs, forceFree, log, ret, rets, pre, calc, calls, isect, inv,
                   orient, resect, polar, gauss, job>>

CallOrthogonal ==
    ~fit.called /\ Fitted("orthogonal_transformation", 0, orthogonal_transformation(fit.plist))
CallOrthogonal3 ==
    ~fit.called /\ Fitted("orthogonal3tr", 0, orthogonal3tr(fit.plist))
CallAffine ==
    ~fit.called /\ Fitted("affine_transformation", 0, affine_transformation(fit.plist))
CallPolynomial ==
    /\ ~fit.called
    /\ Len(fit.plist) \in PolyLengths
    /\ \E degree \in Degrees :
          Fitted("polynomial_transformation", degree,
                 polynomial_transformation(fit.plist, degree))

NextFit == CallOrthogonal \/ CallOrthogonal3 \/ CallAffine \/ CallPolynomial

SpecFit == InitFit /\ [][NextFit]_vars

----------------------------------------------------------------------------
(* JobAre.parse_next and TotalStation.get_line (totalstations.py) *)

MaxFileLines == 3
MaxParse == 5

\* a dict as the set of its <<key, value>> pairs
Empty == {}
SetItem(res, key, value) == {p \in res : p[1] # key} \cup {<<key, value>>}

\* Angle(float(buf[1]), self.angle_unit).get_angle(...) of base_classes: the
\* reading with the unit it was given in
Reading(text, unit) == <<unit, text>>
\* dist_conv with distance_unit 'm'
dist_conv(text) == text

\* lines 267-272: a station line starts a record
StationRecord(buf) == {<<"point_id", buf[2]>>, <<"station", "station">>}
\* lines 279-284: a target line starts a record
TargetRecord(buf) == {<<"point_id", buf[2]>>}
StartsStation(buf) == Len(buf) >= 2 /\ buf[1] = "2"
StartsTarget(buf) == Len(buf) >= 2 /\ buf[1] \in {"5", "62"}

\* lines 273-278 and 288-291: the lines that add a field to the record
Field(res, buf, unit) ==
    CASE buf[1] = "3" -> SetItem(res, "th", dist_conv(buf[2]))
      [] buf[1] = "4" -> SetItem(res, "code", buf[2])
      [] buf[1] = "7" -> SetItem(SetItem(res, "hz", Reading(buf[2], unit)), "station", "None")
      [] OTHER -> res

JobNone(j) == [j |-> j, kind |-> "None", exc |-> "", rec |-> Empty]
JobRecord(j, rec) == [j |-> j, kind |-> "record", exc |-> "", rec |-> rec]
JobRaise(j, exc) == [j |-> j, kind |-> "raise", exc |-> exc, rec |-> Empty]

\* lines 257-263: get_line gave None; the pending record, if any, is handed out
AtEnd(j) ==
    IF j.res # Empty THEN JobRecord([j EXCEPT !.res = Empty], j.res)
    ELSE JobNone([j EXCEPT !.res = Empty])

\* line 309: buf[3] of a line with fewer than four fields
Units(j, buf) ==
    IF Len(buf) < 4 THEN JobRaise(j, "IndexError") ELSE JobRaise(j, "TypeError")

\* the while loop of lines 255-318 from the line at j.pos on
RECURSIVE Read(_)
Read(j) ==
    IF j.pos > Len(j.lines) THEN AtEnd(j)
    ELSE LET buf == j.lines[j.pos]
             k == [j EXCEPT !.pos = j.pos + 1]
         IN  IF Len(buf) < 2 THEN Read(k)
             ELSE IF StartsStation(buf) \/ StartsTarget(buf) THEN
                 LET started == [k EXCEPT !.res = IF StartsStation(buf) THEN StationRecord(buf)
                                                  ELSE TargetRecord(buf)]
                 IN  IF j.res # Empty THEN JobRecord(started, j.res) ELSE Read(started)
             ELSE IF buf[1] = "23" THEN Units(k, buf)
             ELSE Read([k EXCEPT !.res = Field(j.res, buf, j.angle_unit)])

\* JobAre.parse_next(): the parser after the call and what the call gave
parse_next(j) == IF ~j.opened THEN JobNone(j) ELSE Read(j)

\* the lines of the files explored, each split at '='
FileLines ==
    {<<"2", "A">>, <<"5", "B">>, <<"62", "C">>, <<"3", "1">>, <<"4", "X">>,
     <<"7", "1">>, <<"23", "1211">>, <<"">>}
Files == UNION {[1 .. m -> FileLines] : m \in 0 .. MaxFileLines}

\* JobAre(fname): lines 232-235, the file not yet opened
InitJob ==
    /\ \E f \in Files :
          job = [opened |-> FALSE, lines |-> f, pos |-> 1, res |-> Empty,
                 angle_unit |-> "PDEG", distance_unit |-> "m", rets |-> <<>>]
    /\ log = <<>>
    /\ NoTraverse /\ NoIntersection /\ NoInvocations
    /\ NoOrientation /\ NoResection /\ NoPolarpoint /\ NoGauss /\ NoFit

JobUnchanged ==
    UNCHANGED <<trav_obs, forceFree, log, ret, rets, pre, calc, calls, isect, inv,
                orient, resect, polar, gauss, fit>>

\* TotalStation.open()
Open ==
    /\ ~job.opened
    /\ job' = [job EXCEPT !.opened = TRUE]
    /\ JobUnchanged

ParseNext ==
    /\ Len(job.rets) < MaxParse
    /\ \E r \in {parse_next(job)} :
          job' = [r.j EXCEPT !.rets = Append(job.rets,
                                 [opened |-> job.opened, kind |-> r.kind, exc |-> r.exc, rec |-> r.rec])]
    /\ JobUnchanged

NextJob == Open \/ ParseNext

SpecJob == InitJob /\ [][NextJob]_vars

----------------------------------------------------------------------------
(* Claims about Calculation.traverse, checked under Spec *)

Called == calls >= 1
NPre == Cardinality(DOMAIN pre)
StartOf(tr) == tr[0].st
EndOf(tr) == tr[Cardinality(DOMAIN tr) - 1].st
Known(stp) ==
    /\ stp # <<>>
    /\ stp[1].p # <<>>
    /\ stp[1].p[1].e # <<>>
    /\ stp[1].p[1].n # <<>>
LogHas(msg) == \E k \in 1 .. Len(log) : log[k][1] = msg
LogHasError ==
    \E k \in 1 .. Len(log) :
        log[k][1] \in {ErrPoints, ErrStart, ErrOrient, ErrAngle, ErrDist}
IsPrefix(a, b) == Len(a) <= Len(b) /\ \A k \in 1 .. Len(a) : a[k] = b[k]

\* C1: traverse never raises an exception, whatever trav_obs and forceFree are:
\* every call ends by returning a list or None.
C1_NeverRaises == Called => ret.kind \in {"list", "None"}

\* C2: with fewer than 3 entries, or a start station that is None, has no Point
\* or has a Point without e or n, traverse returns None, the log holds an error
\* message and no input record was modified.
C2_BadStartReturnsNone ==
    (Called /\ (NPre < 3 \/ ~Known(StartOf(pre))))
        => /\ ret = [kind |-> "None", exc |-> "", pts |-> <<>>]
           /\ LogHasError
           /\ trav_obs = pre

C2_Witness ==
    /\ Called /\ NPre >= 3 /\ forceFree
    /\ StartOf(pre) # <<>> /\ StartOf(pre)[1].p # <<>>
    /\ StartOf(pre)[1].p[1].e = <<>>
    /\ ret.kind = "None" /\ LogHas(ErrStart)

\* an intermediate station i (0 < i < n-1) that lacks its previous or its next
\* observation, or the hz of either
LacksAngle(tr, i) ==
    \/ tr[i].obsprev = <<>>
    \/ tr[i].obsnext = <<>>
    \/ tr[i].obsprev[1].hz = <<>>
    \/ tr[i].obsnext[1].hz = <<>>

\* a leg i-1 -> i with a distance neither in the next observation of station
\* i-1 nor in the previous observation of station i
LacksDistance(tr, i) ==
    /\ tr[i - 1].obsnext = <<>> \/ tr[i - 1].obsnext[1].d = <<>>
    /\ tr[i].obsprev = <<>> \/ tr[i].obsprev[1].d = <<>>

\* C3: when an intermediate station lacks an angle observation, or a leg has no
\* distance, traverse returns None and the log holds an error message, also when
\* the stations concerned have no Point record.  (Stated for calls that pass the
\* checks of the start point, without forceFree and with an end station.)
C3_MissingObservationReturnsNone ==
    (/\ Called /\ NPre >= 3 /\ Known(StartOf(pre)) /\ ~forceFree
     /\ EndOf(pre) # <<>>
     /\ \/ \E i \in 1 .. NPre - 2 : LacksAngle(pre, i)
        \/ \E i \in 1 .. NPre - 1 : LacksDistance(pre, i))
        => ret.kind = "None" /\ LogHasError

\* C4: a successful traverse over n stations returns the points of the stations
\* 1 .. n-1 when it is free (forceFree, or an end station without e/n, which
\* only adds a warning to the log) and of the stations 1 .. n-2 otherwise, in
\* station order and without the start station.
IdOfStation(tr, i) ==
    IF tr[i].st[1].p # <<>> THEN tr[i].st[1].p[1].id ELSE tr[i].st[1].oid
FreePre == forceFree \/ ~Known(EndOf(pre))
C4_ReturnedPoints ==
    (Called /\ ret.kind = "list")
        => /\ Len(ret.pts) = (IF FreePre THEN NPre - 1 ELSE NPre - 2)
           /\ \A k \in 1 .. Len(ret.pts) : ret.pts[k].id = IdOfStation(pre, k)
           /\ (~forceFree /\ ~Known(EndOf(pre))) => (LogHas(WarnFree) /\ ~LogHasError)

C4_Witness ==
    /\ Called /\ ret.kind = "list" /\ ~forceFree /\ ~Known(EndOf(pre))
    /\ Len(ret.pts) = NPre - 1 /\ NPre = 3

\* C5: in a traverse that is not free, the coordinates accumulated for the last
\* station after the compass rule corrections are those of the end point, and
\* the corrections of all legs add up to the misclosure (dde, ddn).
RECURSIVE RSum(_, _, _)
RSum(f, i, n) == IF i > n - 1 THEN RZero ELSE RAdd(f[i], RSum(f, i + 1, n))
C5_ClosesOnEndPoint ==
    (Called /\ calc.done /\ ~calc.free)
        => /\ calc.ee[calc.n - 1] = EndOf(pre)[1].p[1].e[1]
           /\ calc.nn[calc.n - 1] = EndOf(pre)[1].p[1].n[1]
           /\ RSum(calc.ve, 1, calc.n) = calc.dde
           /\ RSum(calc.vn, 1, calc.n) = calc.ddn

C5_Witness ==
    /\ Called /\ calc.done /\ ~calc.free /\ ret.kind = "list"
    /\ calc.dde.num # 0 /\ calc.ddn.num # 0
    /\ calc.t[1] # calc.t[2]

\* C6: the angle corrections are all equal to dbeta / n and add up to dbeta;
\* with an orientation at both ends (beta defined at both ends) dbeta is
\* (n-1)*pi - sum(beta) reduced into [-pi, pi], otherwise dbeta and every
\* correction are zero.
RECURSIVE ISum(_, _, _)
ISum(f, i, n) == IF i > n - 1 THEN 0 ELSE f[i] + ISum(f, i + 1, n)
BetaSum == ISum([i \in 0 .. calc.n - 1 |-> calc.beta[i][1]], 0, calc.n)
C6_AngleCorrections ==
    (Called /\ calc.n > 0)
        => /\ \A i \in 0 .. calc.n - 1 : calc.vbeta[i] * calc.n = calc.dbeta
           /\ ISum(calc.vbeta, 0, calc.n) = calc.dbeta
           /\ IF calc.beta[0] # <<>> /\ calc.beta[calc.n - 1] # <<>>
              THEN /\ -Pi <= calc.dbeta /\ calc.dbeta <= Pi
                   /\ (calc.dbeta - ((calc.n - 1) * Pi - BetaSum)) % TwoPi = 0
              ELSE /\ calc.dbeta = 0
                   /\ \A i \in 0 .. calc.n - 1 : calc.vbeta[i] = 0

C6_Witness ==
    /\ Called /\ calc.n > 0 /\ ret.kind = "list"
    /\ calc.beta[0] # <<>> /\ calc.beta[calc.n - 1] # <<>>
    /\ calc.dbeta # 0

\* C7: the log is append-only: what it holds is never removed or overwritten,
\* a call of traverse only appends to what the log held before the call.
C7_LogAppendOnly == [][IsPrefix(log, log')]_vars

\* C9: two successive calls with the same trav_obs and forceFree return the same
\* list of points.
C9_SameResultTwice ==
    (Len(rets) >= 2 /\ rets[1].kind = "list") => rets[2] = rets[1]

----------------------------------------------------------------------------
(* Claims about interleaved invocations, checked under SpecConc *)

Contiguous(a, b) ==
    \E off \in 0 .. Len(b) - Len(a) : \A j \in 1 .. Len(a) : b[off + j] = a[j]

\* C8: two invocations of traverse whose steps interleave do not interfere:
\* when an invocation returns, the log holds its narrative complete and
\* contiguous, neither erased nor interleaved with lines of the other.
C8_NarrativesDoNotInterfere ==
    \A k \in DOMAIN inv : inv[k].pc = "done" => Contiguous(inv[k].lines, log)

----------------------------------------------------------------------------
(* Claims about Calculation.intersection, checked under SpecIntersection *)

AllHz(a) ==
    /\ a.s1.ohz # <<>> /\ a.obs1.hz # <<>>
    /\ a.s2.ohz # <<>> /\ a.obs2.hz # <<>>
ParallelLines(a) ==
    ((a.s1.ohz[1] + a.obs1.hz[1]) - (a.s2.ohz[1] + a.obs2.hz[1])) % Pi = 0

----------------------------------------------------------------------------
(* Claims about Calculation.resection, checked under SpecResection *)

TwoPoints == resect.called /\ resect.cc.kind = "list" /\ Len(resect.cc.points) = 2
NotTwoPoints == resect.called /\ resect.cc.kind = "list" /\ Len(resect.cc.points) # 2
Within(p) ==
    LET de == RSub(resect.args.p2.e[1], p.e[1])
        dn == RSub(resect.args.p2.n[1], p.n[1])
    IN  /\ de.num * 10 < de.den /\ -de.den < de.num * 10
        /\ dn.num * 10 < dn.den /\ -dn.den < dn.num * 10
SamePlace(p, q) == p.e = q.e /\ p.n = q.n

\* C11: when the circles meet in two points, the point resection returns is
\* never within 0.1 of p2 in both coordinates, and it is the one of the two
\* that is not within 0.1 of p2 wherever that one stands in the pair.
C11_NotNearP2 ==
    TwoPoints
        => /\ resect.ret.kind = "point"
           /\ ~Within(resect.ret.p[1])
           /\ \A k \in 1 .. 2 :
                 (~Within(resect.cc.points[k]) /\ Within(resect.cc.points[3 - k]))
                     => SamePlace(resect.ret.p[1], resect.cc.points[k])

C13_NoPointsReturnsNone ==
    NotTwoPoints => resect.ret.kind = "None"

----------------------------------------------------------------------------
(* Claims about Calculation.orientation, checked under SpecOrientation *)

LastStation == StationAt(orient.calls)
LastRet == orient.rets[orient.calls]
AllMeasured(l) == \A k \in 1 .. Len(l) : l[k][2].hz # <<>>
Coincide(st, l) ==
    \A k \in 1 .. Len(l) : l[k][1].e = st.p[1].e /\ l[k][1].n = st.p[1].n

Swap(l, i, j) == [l EXCEPT ![i] = l[j], ![j] = l[i]]

\* C15: the angle orientation returns lies in [0, 2 pi) and is the same for
\* the list with any two of its entries exchanged; every permutation is a
\* product of such exchanges and the lists explored are closed under them, so
\* the angle is the same for every order of ref_list.
C15_OrderIndependent ==
    (orient.calls = 1 /\ LastRet.kind = "angle")
        => /\ 0 <= LastRet.za[1] /\ LastRet.za[1] < TwoPi
           /\ \A i, j \in 1 .. Len(orient.before) :
                 i < j => orientation(StationAt(1), Swap(orient.before, i, j)).ret.za
                            = LastRet.za

C15_Witness ==
    /\ orient.calls = 1 /\ LastRet.kind = "angle" /\ Len(orient.before) = 3
    /\ orient.before[1][1].id = "P" /\ orient.before[2][1].id = "Q"
    /\ orient.before[3][1].id = "S1"
    /\ orient.ref_list[1][4] # orient.ref_list[2][4]

\* C16: in the residual table every angular error e, in seconds, of a
\* reference whose orientation z lies in [0, 2 pi) lies in [-PISEC, PISEC]
\* (the mean angle lies in [0, 2 pi) as well).
C16_ErrorRange ==
    (orient.calls >= 1 /\ LastRet.kind = "angle")
        => \A k \in 1 .. Len(LastRet.rows) :
              (0 <= LastRet.rows[k].z /\ LastRet.rows[k].z < TwoPi)
                  => -PISEC <= LastRet.rows[k].e /\ LastRet.rows[k].e <= PISEC

C16_Witness ==
    /\ orient.calls >= 1 /\ LastRet.kind = "angle"
    /\ \E k \in 1 .. Len(LastRet.rows) :
          /\ 0 <= LastRet.rows[k].z /\ LastRet.rows[k].z < TwoPi
          /\ (LastRet.rows[k].z - LastRet.za[1]) * SecPerUnit > PISEC
          /\ LastRet.rows[k].e < 0

Fresh(l) == [k \in 1 .. Len(l) |-> SubSeq(l[k], 1, 2)]

\* C17: orientation leaves its arguments as it found them: after a call every
\* entry of ref_list still is the pair [point, observation], and the table of a
\* second call with the same ref_list is the table computed for the station of
\* that call.
C17_ArgumentsUntouched ==
    (orient.calls >= 1 /\ LastRet.kind = "angle")
        => /\ orient.ref_list = orient.before
           /\ \A k \in 1 .. Len(orient.ref_list) : Len(orient.ref_list[k]) = 2
           /\ LastRet.rows = orientation(LastStation, Fresh(orient.before)).ret.rows

\* the second part of C17 alone: the table of the second call
C17_SecondTable ==
    (orient.calls = 2 /\ LastRet.kind = "angle")
        => LastRet.rows = orientation(LastStation, Fresh(orient.before)).ret.rows

----------------------------------------------------------------------------
(* Claims about Calculation.polarpoint, checked under SpecPolarpoint *)

PolarReturned == polar.called /\ polar.ret.kind = "point"
HasElevationData ==
    /\ polar.before.st.p[1].z # <<>>
    /\ polar.before.st.oth # <<>>
    /\ polar.before.obs.v # <<>>
ExpectedZ ==
    LET up == RAdd(RAdd(polar.before.st.p[1].z[1], polar.before.st.oth[1]),
                   RMul(polar.before.obs.d[1], Cos(polar.before.obs.v[1])))
    IN  IF polar.before.obs.th = <<>> THEN up ELSE RSub(up, polar.before.obs.th[1])

\* C18: the point polarpoint returns has the id, pc and pt of the observation;
\* its z is defined exactly when st.p.z, st.o.th and obs.v are all there, and
\* then is st.p.z + st.o.th + d * cos(v), less obs.th when that is there; the
\* station and the observation are as they were before the call.
C18_PolarPoint ==
    PolarReturned
        => /\ polar.ret.p[1].id = polar.before.obs.point_id
           /\ polar.ret.p[1].pc = polar.before.obs.pc
           /\ polar.ret.p[1].pt = polar.before.obs.pt
           /\ (polar.ret.p[1].z # <<>>) <=> HasElevationData
           /\ HasElevationData => polar.ret.p[1].z = <<ExpectedZ>>
           /\ polar.st = polar.before.st /\ polar.obs = polar.before.obs

C18_Witness ==
    /\ PolarReturned /\ HasElevationData /\ polar.before.obs.th # <<>>
    /\ polar.before.obs.v = <<Pi \div 4>>
    /\ polar.ret.p[1].z = <<ExpectedZ>>

----------------------------------------------------------------------------
(* Claims about Calculation.gauss_elimination, checked under SpecGauss *)

GaussSize == Len(gauss.before.b)
Dot(row, col) == RSum([k \in 1 .. Len(row) |-> RMul(row[k], col[k])], 1, Len(row) + 1)
Column(m, k) == [i \in 1 .. Len(m) |-> m[i][k]]
Identity(n) == [i \in 1 .. n |-> [k \in 1 .. n |-> IF i = k THEN R(1) ELSE R(0)]]
NearZero(x) == RLess(RAbs(x), Norm(1, 100))
BadPivot == \E i \in 1 .. Len(gauss.ret.pivots) : NearZero(gauss.ret.pivots[i])

\* C19: when a pivot a[i][i] met during the elimination is zero or near zero,
\* gauss_elimination ends with a failure and returns no result.
C19_BadPivotFails ==
    (gauss.called /\ BadPivot) => gauss.ret.kind = "raise"

\* C20: when gauss_elimination returns, a0 * x = b0 and a0 * inv = identity for
\* the a0, b0 handed in, and x and inv are the lists b and a after the call.
C20_SolutionAndInverse ==
    (gauss.called /\ gauss.ret.kind = "return")
        => /\ \A i \in 1 .. GaussSize :
                 Dot(gauss.before.a[i], gauss.ret.b) = gauss.before.b[i]
           /\ [i \in 1 .. GaussSize |-> [k \in 1 .. GaussSize |->
                 Dot(gauss.before.a[i], Column(gauss.ret.a, k))]] = Identity(GaussSize)
           /\ gauss.a = gauss.ret.a /\ gauss.b = gauss.ret.b

C20_Witness ==
    /\ gauss.called /\ gauss.ret.kind = "return"
    /\ GaussSize = 2
    /\ gauss.before.a = <<<<R(2), R(1)>>, <<R(1), R(1)>>>>
    /\ gauss.before.b = <<R(3), R(1)>>
    /\ gauss.ret.b = <<R(2), R(-1)>>
    /\ gauss.ret.a = <<<<R(1), R(-1)>>, <<R(-1), R(2)>>>>

----------------------------------------------------------------------------
(* Claims about the transformation fits, checked under SpecFit *)

FitSrc(i) == <<fit.plist[i].src.e[1], fit.plist[i].src.n[1]>>
AllCoincide == \A i, j \in 1 .. Len(fit.plist) : FitSrc(i) = FitSrc(j)
Cross(i, j, k) ==
    RSub(RMul(RSub(FitSrc(j)[1], FitSrc(i)[1]), RSub(FitSrc(k)[2], FitSrc(i)[2])),
         RMul(RSub(FitSrc(j)[2], FitSrc(i)[2]), RSub(FitSrc(k)[1], FitSrc(i)[1])))
Collinear == \A i, j, k \in 1 .. Len(fit.plist) : RIsZero(Cross(i, j, k))
Unknowns == ((fit.degree + 1) * (fit.degree + 2)) \div 2
OrthogonalGen == fit.gen[3] = fit.gen[6] /\ fit.gen[4] = -fit.gen[5]
FitMeans ==
    [e |-> RDiv(SumOf([i \in 1 .. Len(fit.plist) |-> FitSrc(i)[1]]), R(Len(fit.plist))),
     n |-> RDiv(SumOf([i \in 1 .. Len(fit.plist) |-> FitSrc(i)[2]]), R(Len(fit.plist)))]

\* C21: with at least two pairs whose source points do not all coincide,
\* orthogonal3tr completes and returns a list of three parameters.
C21_ThreeParameters ==
    (fit.called /\ fit.fn = "orthogonal3tr" /\ Len(fit.plist) >= 2 /\ ~AllCoincide)
        => fit.ret.kind = "return" /\ Len(fit.ret.params) = 3

\* C22: destinations obtained from the sources by E = E0 + c*e - d*n,
\* N = N0 + d*e + c*n give back [E0, N0, c, d] from orthogonal_transformation
\* when the sources do not all coincide; destinations obtained by
\* E = E0 + a*e + b*n, N = N0 + c*e + d*n give back [E0, N0, a, b, c, d] from
\* affine_transformation when the sources are not collinear.
C22_RoundTrip ==
    /\ (fit.called /\ fit.fn = "orthogonal_transformation" /\ OrthogonalGen /\ ~AllCoincide)
          => /\ fit.ret.kind = "return"
             /\ fit.ret.params = <<R(fit.gen[1]), R(fit.gen[2]), R(fit.gen[3]), R(fit.gen[5])>>
    /\ (fit.called /\ fit.fn = "affine_transformation" /\ ~Collinear)
          => /\ fit.ret.kind = "return"
             /\ fit.ret.params = [i \in 1 .. 6 |-> R(fit.gen[i])]

C22_Witness ==
    /\ fit.called /\ fit.fn = "orthogonal_transformation"
    /\ fit.gen = <<10, 20, 2, -1, 1, 2>>
    /\ Len(fit.plist) = 3 /\ ~Collinear
    /\ fit.ret.params = <<R(10), R(20), R(2), R(1)>>

\* C23: a fit on a degenerate point set ends with a failure: the orthogonal fit
\* when all sources coincide, the affine fit when they are collinear, the
\* polynomial fit with fewer points than unknowns, each of them on an empty list.
C23_DegenerateFails ==
    /\ (fit.called /\ fit.fn = "orthogonal_transformation" /\ AllCoincide)
          => fit.ret.kind = "raise"
    /\ (fit.called /\ fit.fn = "affine_transformation" /\ Collinear)
          => fit.ret.kind = "raise"
    /\ (fit.called /\ fit.fn = "polynomial_transformation" /\ Len(fit.plist) < Unknowns)
          => fit.ret.kind = "raise"

\* C24: when the polynomial fit calls the solver, row i of the design matrix
\* holds the m monomials of the reduced point i, and
\* N1[i][j] = sum over k of a1[k][i] * a1[k][j].
C24_DesignAndNormal ==
    (fit.called /\ fit.fn = "polynomial_transformation" /\ Len(fit.plist) > 0)
        => /\ \A i \in 1 .. Len(fit.plist) :
                 /\ Len(fit.ret.a1[i]) = Unknowns
                 /\ fit.ret.a1[i] = Monomials(RSub(FitSrc(i)[1], FitMeans.e),
                                              RSub(FitSrc(i)[2], FitMeans.n), fit.degree)
           /\ \A i, j \in 1 .. Unknowns :
                 fit.ret.N1[i][j] =
                     SumOf([k \in 1 .. Len(fit.plist) |-> RMul(fit.ret.a1[k][i], fit.ret.a1[k][j])])

----------------------------------------------------------------------------
(* Further claims about Calculation.traverse, checked under Spec *)

Collected == Called /\ calc.n > 0
InCircle(a) == 0 <= a /\ a < TwoPi

\* C25: every turn angle beta[i] that is defined after the collection loop and
\* every bearing delta[i], i >= 1, is at least 0 and less than 2 pi.
C25_AnglesBelowTwoPi ==
    Collected
        => /\ \A i \in 0 .. calc.n - 1 : calc.beta[i] # <<>> => InCircle(calc.beta[i][1])
           /\ \A i \in 1 .. calc.n - 1 : InCircle(calc.delta[i])

DistOf(obs) == IF obs # <<>> /\ obs[1].d # <<>> THEN obs[1].d ELSE <<>>
\* the distances recorded for leg i-1 -> i: at station i-1 forwards, at station i backwards
Forward(i) == DistOf(pre[i - 1].obsnext)
Backward(i) == DistOf(pre[i].obsprev)

\* C26: the length used for leg i-1 -> i is the mean of the distance of station
\* i-1's next observation and of station i's previous observation when both are
\* there, and the one that is there otherwise.
C26_LegLength ==
    Collected
        => \A i \in 1 .. calc.n - 1 :
              calc.t[i] = IF Forward(i) # <<>> /\ Backward(i) # <<>>
                          THEN <<RHalf(RAdd(Forward(i)[1], Backward(i)[1]))>>
                          ELSE IF Forward(i) # <<>> THEN Forward(i) ELSE Backward(i)

C26_Witness ==
    /\ Collected /\ calc.n = 3
    /\ Forward(1) = <<R(2)>> /\ Backward(1) = <<R(3)>> /\ calc.t[1] = <<Norm(5, 2)>>
    /\ Forward(2) = <<R(3)>> /\ Backward(2) = <<R(4)>> /\ calc.t[2] = <<Norm(7, 2)>>

HasPoint(stp) == stp # <<>> /\ stp[1].p # <<>>
\* tr with the e, n and the orientation of its end station taken away
Stripped(tr) ==
    [tr EXCEPT ![Cardinality(DOMAIN tr) - 1].st[1].p[1].e = <<>>,
               ![Cardinality(DOMAIN tr) - 1].st[1].p[1].n = <<>>,
               ![Cardinality(DOMAIN tr) - 1].st[1].ohz = <<>>]
Coords(r) == [kind |-> r.kind, en |-> [k \in 1 .. Len(r.pts) |-> <<r.pts[k].e, r.pts[k].n>>]]
Forced == Called /\ forceFree /\ HasPoint(EndOf(pre))

\* C27: with an end station that has a Point, traverse with forceFree returns the
\* coordinates that traverse without forceFree returns on the same records with
\* the e, n and orientation of the end station removed.
C27_ForceFreeIgnoresEnd ==
    Forced => Coords(ret) = Coords(traverse(Stripped(pre), FALSE, <<>>).ret)

C27_Witness ==
    /\ Forced /\ ret.kind = "list" /\ Len(ret.pts) = 3
    /\ Known(EndOf(pre)) /\ EndOf(pre)[1].ohz # <<>> /\ StartOf(pre)[1].ohz # <<>>
    /\ Coords(ret) = Coords(traverse(Stripped(pre), FALSE, <<>>).ret)

\* C28: when traverse logs an error and returns None, the records handed in are
\* as they were before the call: coordinates and orientations of every station.
C28_AbortLeavesRecords ==
    (Called /\ ret.kind = "None") => trav_obs = pre

PointOf(tr, i) == IF HasPoint(tr[i].st) THEN tr[i].st[1].p ELSE <<>>
Rest(p) == IF p = <<>> THEN <<>> ELSE <<p[1].id, p[1].z, p[1].pc, p[1].pt>>
Succeeded == Called /\ ret.kind = "list"

\* C29: a successful traverse leaves the coordinates of the start point alone,
\* and those of the end point when the traverse is not free; the e and n it
\* writes are those of the stations it returns; z, pc and pt of every point stay.
C29_CoordinatesWritten ==
    Succeeded
        => /\ PointOf(trav_obs, 0) = PointOf(pre, 0)
           /\ ~FreePre => PointOf(trav_obs, NPre - 1) = PointOf(pre, NPre - 1)
           /\ \A i \in 0 .. NPre - 1 :
                 /\ Rest(PointOf(trav_obs, i)) = Rest(PointOf(pre, i))
                 /\ (PointOf(trav_obs, i) # PointOf(pre, i))
                       => /\ 1 <= i /\ i <= Len(ret.pts)
                          /\ PointOf(trav_obs, i) = <<ret.pts[i]>>

C29_Witness ==
    /\ Succeeded /\ ~FreePre /\ NPre = 4
    /\ PointOf(pre, 1) # <<>> /\ PointOf(trav_obs, 1) # PointOf(pre, 1)
    /\ PointOf(pre, 2) # <<>> /\ PointOf(trav_obs, 2) = <<ret.pts[2]>>
    /\ PointOf(trav_obs, 3) = PointOf(pre, 3)

----------------------------------------------------------------------------
(* Claims about JobAre.parse_next, checked under SpecJob *)

IsStart(buf) == Len(buf) >= 2 /\ buf[1] \in {"2", "5", "62"}
Starts == {i \in 1 .. Len(job.lines) : IsStart(job.lines[i])}
\* the record of the starting line i with the fields of the lines up to the next starting line
RECURSIVE RecordFrom(_, _)
RecordFrom(rec, i) ==
    IF i > Len(job.lines) \/ IsStart(job.lines[i]) THEN rec
    ELSE RecordFrom(IF Len(job.lines[i]) < 2 THEN rec ELSE Field(rec, job.lines[i], "PDEG"), i + 1)
RecordOf(i) ==
    RecordFrom(IF job.lines[i][1] = "2" THEN StationRecord(job.lines[i])
               ELSE TargetRecord(job.lines[i]), i + 1)
\* the k-th starting line
RECURSIVE NthStart(_, _)
NthStart(k, i) ==
    IF IsStart(job.lines[i]) THEN (IF k = 1 THEN i ELSE NthStart(k - 1, i + 1))
    ELSE NthStart(k, i + 1)
OpenCalls == SelectSeq(job.rets, LAMBDA r : r.opened)

\* C30: on an opened file the k-th call of parse_next gives the record of the
\* k-th station or target line with the fields of the lines after it, and
\* every call after the last record gives None.
C30_RecordsInOrder ==
    \A k \in 1 .. Len(OpenCalls) :
        IF k <= Cardinality(Starts)
        THEN OpenCalls[k].kind = "record" /\ OpenCalls[k].rec = RecordOf(NthStart(k, 1))
        ELSE OpenCalls[k].kind = "None"

============================================================================
